---- MODULE Spec2Model ----
(***************************************************************************)
(* Inline projections of @emmett-community/emmett-google-realtime-db.      *)
(*                                                                         *)
(* wireRealtimeDBProjections wraps appendToStream of an event store; after *)
(* a successful append it rebuilds the read events and hands them to       *)
(* handleInlineProjections, which reads, evolves and persists every        *)
(* matching projection, one after the other.  Every await of the code is a *)
(* step of the model; several callers may be inside the wrapped            *)
(* appendToStream at once.                                                 *)
(***************************************************************************)
EXTENDS Integers, Sequences, FiniteSets

VARIABLES
    eventStore,   \* stream name -> version of the stream in the event store
    store,        \* Realtime DB: path -> stored value (Null when absent)
    calls,        \* caller -> the wrapped appendToStream call it is in
    api,          \* which version fields the event store's result carries
    started       \* wrapped appendToStream calls started so far

vars == <<eventStore, store, calls, api, started>>

----------------------------------------------------------------------------
(* Bounds of the model *)

MaxCalls == 2
MaxBatch == 2

Callers == {"c1", "c2"}
Streams == {"s1", "s2"}
EventTypes == {"ItemAdded", "ItemRemoved", "OrderCancelled"}

----------------------------------------------------------------------------
(* JavaScript values *)

\* null / undefined
Null == [isNull |-> TRUE]

\* an Error value with a message
Error(message) == [error |-> message]

Range(s) == {s[i] : i \in DOMAIN s}

Last(s) == s[Len(s)]

SeqsUpTo(S, n) == UNION {[1..k -> S] : k \in 0..n}

Digit(d) ==
    CASE d = 0 -> "0" [] d = 1 -> "1" [] d = 2 -> "2" [] d = 3 -> "3"
      [] d = 4 -> "4" [] d = 5 -> "5" [] d = 6 -> "6" [] d = 7 -> "7"
      [] d = 8 -> "8" [] d = 9 -> "9"

RECURSIVE Digits(_)
Digits(n) == IF n < 10 THEN Digit(n) ELSE Digits(n \div 10) \o Digit(n % 10)

\* bigint.toString(): the decimal numeral, with a sign for negative values
BigIntToString(n) == IF n < 0 THEN "-" \o Digits(0 - n) ELSE Digits(n)

\* the stream positions a run can produce: no more events than the calls append
Positions == 0..(MaxCalls * MaxBatch)

DigitValue(char) ==
    CASE char = "0" -> 0 [] char = "1" -> 1 [] char = "2" -> 2 [] char = "3" -> 3
      [] char = "4" -> 4 [] char = "5" -> 5 [] char = "6" -> 6 [] char = "7" -> 7
      [] char = "8" -> 8 [] char = "9" -> 9

RECURSIVE ParseDigits(_, _)
ParseDigits(string, value) ==
    IF string = "" THEN value
    ELSE ParseDigits(Tail(string), 10 * value + DigitValue(Head(string)))

\* A double holds 53 significant bits; the model keeps MantissaBits of them,
\* so that the integers above 2^MantissaBits stand for those above 2^53.
MantissaBits == 4

RECURSIVE Ulp(_, _)
Ulp(n, unit) == IF n < (2 ^ MantissaBits) * unit THEN unit ELSE Ulp(n, 2 * unit)

\* Number(n) for n >= 0: the nearest representable value, ties to even
ToNumber(n) ==
    LET unit == Ulp(n, 1)
        quotient == n \div unit
        rest == n % unit
    IN  IF 2 * rest > unit \/ (2 * rest = unit /\ quotient % 2 = 1)
        THEN (quotient + 1) * unit
        ELSE quotient * unit

\* defect: BigInt(Number(string)), the numeral goes through a double
BigIntViaNumber(string) == ToNumber(ParseDigits(string, 0))

\* BigInt(string): the decimal numeral read digit by digit, exact at any size
BigInt(string) ==
    IF string # "" /\ Head(string) = "-" THEN 0 - ParseDigits(Tail(string), 0)
    ELSE ParseDigits(string, 0)

----------------------------------------------------------------------------
(* Events appended by the callers (test/fixtures/events.ts) *)

EventData(type) ==
    CASE type = "ItemAdded" -> [itemId |-> "item-1", quantity |-> 1]
      [] type = "ItemRemoved" -> [itemId |-> "item-1"]
      [] type = "OrderCancelled" -> [orderId |-> "order-1"]

\* createReadEvent of the fixtures: the event with the caller's own metadata
createReadEvent(event, streamPosition, streamName) ==
    [type |-> event.type, data |-> event.data,
     metadata |-> [streamPosition |-> streamPosition, streamName |-> streamName,
                   messageId |-> "msg-" \o BigIntToString(streamPosition)]]

\* The events the callers append: the additions and removals come from the
\* fixture factories itemAdded(...) and itemRemoved(...) and carry metadata of
\* their own (position 0, stream 'test-stream'); the cancellation is a plain
\* { type, data } event without metadata.
InputEvent(type) ==
    IF type = "OrderCancelled"
    THEN [type |-> type, data |-> EventData(type)]
    ELSE createReadEvent([type |-> type, data |-> EventData(type)], 0, "test-stream")

Batches == {[i \in DOMAIN ts |-> InputEvent(ts[i])] : ts \in SeqsUpTo(EventTypes, MaxBatch)}

----------------------------------------------------------------------------
(* Realtime DB (test/support/inMemoryRealtimeDb.ts) *)

ProjectionPath(projectionName, streamId) ==
    "projections/" \o projectionName \o "/" \o streamId

DbGet(db, path) == IF path \in DOMAIN db THEN db[path] ELSE Null

\* defect: a set that keeps the stored document when it records a higher
\* stream position (an optimistic-concurrency check)
DbSetIfNewer(db, path, value) ==
    IF /\ path \in DOMAIN db
       /\ db[path] # Null
       /\ BigInt(db[path]._metadata.streamPosition) > BigInt(value._metadata.streamPosition)
    THEN db
    ELSE [p \in DOMAIN db \cup {path} |-> IF p = path THEN value ELSE db[p]]

\* defect: the set behaves as an update, fields it does not name are kept
DbSetMerges(db, path, value) ==
    LET stored == DbGet(db, path)
        merged == IF stored = Null THEN value
                  ELSE [k \in DOMAIN stored \cup DOMAIN value |->
                           IF k \in DOMAIN value THEN value[k] ELSE stored[k]]
    IN  [p \in DOMAIN db \cup {path} |-> IF p = path THEN merged ELSE db[p]]

DbSet(db, path, value) == [p \in DOMAIN db \cup {path} |-> IF p = path THEN value ELSE db[p]]

\* defect: the remove resolves and leaves the document where it is
DbRemoveKeeps(db, path) == db

DbRemove(db, path) == [p \in DOMAIN db |-> IF p = path THEN Null ELSE db[p]]

----------------------------------------------------------------------------
(* Projection definitions registered by the integrator (test/fixtures) *)

Thrown(error) == [thrown |-> error]

IsThrown(v) == "thrown" \in DOMAIN v

TypeErrorOfNull == Error("Cannot read properties of null")

HasItem(items, itemId) == \E i \in DOMAIN items : items[i].itemId = itemId

ItemOf(items, itemId) == items[CHOOSE i \in DOMAIN items : items[i].itemId = itemId]

\* items.filter((i) => i.itemId !== itemId)
RECURSIVE WithoutItem(_, _)
WithoutItem(items, itemId) ==
    IF items = <<>> THEN <<>>
    ELSE (IF Head(items).itemId # itemId THEN <<Head(items)>> ELSE <<>>)
             \o WithoutItem(Tail(items), itemId)

\* counterProjection.evolve
CounterEvolve(state, event) ==
    IF state = Null THEN Thrown(TypeErrorOfNull)
    ELSE CASE event.type = "ItemAdded" -> [count |-> state.count + 1]
           [] event.type = "ItemRemoved" -> [count |-> state.count - 1]
           [] OTHER -> state

\* cartProjection.evolve; unitPrice defaults to 0 and the removed quantity to 1
CartEvolve(state, event) ==
    CASE event.type = "ItemAdded" ->
           IF state = Null THEN Thrown(TypeErrorOfNull)
           ELSE LET itemId == event.data.itemId
                    quantity == event.data.quantity
                    unitPrice == 0
                    updatedItems ==
                        IF HasItem(state.items, itemId)
                        THEN [i \in DOMAIN state.items |->
                                 IF state.items[i].itemId = itemId
                                 THEN [state.items[i] EXCEPT !.quantity = @ + quantity]
                                 ELSE state.items[i]]
                        ELSE Append(state.items,
                                    [itemId |-> itemId, quantity |-> quantity,
                                     unitPrice |-> unitPrice])
                IN  [state EXCEPT !.items = updatedItems,
                                  !.totalQuantity = @ + quantity,
                                  !.totalAmount = @ + quantity * unitPrice]
      [] event.type = "ItemRemoved" ->
           IF state = Null THEN Thrown(TypeErrorOfNull)
           ELSE LET itemId == event.data.itemId
                    quantity == 1
                IN  IF ~HasItem(state.items, itemId) THEN state
                    ELSE LET existingItem == ItemOf(state.items, itemId)
                             newQuantity == existingItem.quantity - quantity
                             updatedItems ==
                                 IF newQuantity <= 0
                                 THEN WithoutItem(state.items, itemId)
                                 ELSE [i \in DOMAIN state.items |->
                                          IF state.items[i].itemId = itemId
                                          THEN [state.items[i] EXCEPT !.quantity = newQuantity]
                                          ELSE state.items[i]]
                         IN  [state EXCEPT !.items = updatedItems,
                                           !.totalQuantity = @ - quantity,
                                           !.totalAmount = @ - quantity * existingItem.unitPrice]
      [] event.type = "OrderCancelled" -> Null
      [] OTHER -> state

\* nullableProjection.evolve
NullableEvolve(state, event) ==
    IF event.type = "ItemAdded" /\ state = Null THEN [value |-> "created"]
    ELSE IF event.type = "ItemRemoved" /\ state # Null THEN Null
    ELSE state

\* options.evolve(state, event)
Evolve(options, state, event) ==
    CASE options.evolve = "counter" -> CounterEvolve(state, event)
      [] options.evolve = "cart" -> CartEvolve(state, event)
      [] options.evolve = "nullable" -> NullableEvolve(state, event)

\* options.initialState()
InitialState(options) ==
    CASE options.initialState = "counter" -> [count |-> 0]
      [] options.initialState = "cart" ->
           [items |-> <<>>, totalQuantity |-> 0, totalAmount |-> 0, status |-> "Open"]

counterOptions ==
    [evolve |-> "counter", initialState |-> "counter",
     name |-> "test-counter", canHandle |-> <<"ItemAdded", "ItemRemoved">>]

cartOptions ==
    [evolve |-> "cart", initialState |-> "cart", name |-> "test-cart",
     canHandle |-> <<"ItemAdded", "ItemRemoved", "OrderConfirmed", "OrderCancelled">>]

\* a nullable-document projection built without a name, with a schema version
nullableOptions ==
    [evolve |-> "nullable", canHandle |-> <<"ItemAdded", "ItemRemoved">>,
     schemaVersion |-> 2]

\* realtimeDBInlineProjection(options): the definition; handle is Handle below
realtimeDBInlineProjection(options) ==
    [options |-> options,
     name |-> IF "name" \in DOMAIN options THEN options.name ELSE "_default",
     canHandle |-> options.canHandle,
     schemaVersion |-> IF "schemaVersion" \in DOMAIN options THEN options.schemaVersion ELSE 1]

counterProjection == realtimeDBInlineProjection(counterOptions)
cartProjection == realtimeDBInlineProjection(cartOptions)
nullableProjection == realtimeDBInlineProjection(nullableOptions)

\* the projections handed to wireRealtimeDBProjections, in registration order
Projections == <<counterProjection, cartProjection, nullableProjection>>

\* Names and stream ids are arbitrary strings; "/" separates the segments of
\* a store path.  Two counters are registered under such names.
cartCounterProjection ==
    realtimeDBInlineProjection(
        [evolve |-> "counter", initialState |-> "counter",
         name |-> "cart", canHandle |-> <<"ItemAdded", "ItemRemoved">>])

archiveCounterProjection ==
    realtimeDBInlineProjection(
        [evolve |-> "counter", initialState |-> "counter",
         name |-> "cart/archive", canHandle |-> <<"ItemAdded", "ItemRemoved">>])

PathProjections == <<cartCounterProjection, archiveCounterProjection>>

PathStreams == {"s1", "archive/s1"}

\* the store paths a run can address
Paths ==
    {ProjectionPath(Projections[i].name, s) : i \in DOMAIN Projections, s \in Streams}
        \cup {ProjectionPath(PathProjections[i].name, s) :
                 i \in DOMAIN PathProjections, s \in PathStreams}

----------------------------------------------------------------------------
(* The applier: handle of a definition built by realtimeDBInlineProjection *)

\* defect: the stored document is folded as it is, envelope included
StripMetadataKeeps(document) == document

\* the stored document without its _metadata, or null
StripMetadata(document) ==
    IF document # Null
    THEN IF "_metadata" \in DOMAIN document
         THEN [k \in DOMAIN document \ {"_metadata"} |-> document[k]]
         ELSE document
    ELSE Null

\* defect: a definition with initialState always starts from initialState()
WorkingStateAlwaysInitial(options, rawDocument) ==
    IF "initialState" \in DOMAIN options THEN InitialState(options) ELSE rawDocument

\* the state the fold starts from
WorkingState(options, rawDocument) ==
    IF "initialState" \in DOMAIN options
    THEN (IF rawDocument # Null THEN rawDocument ELSE InitialState(options))
    ELSE rawDocument

\* defect: the batch is folded from its last event to its first
RECURSIVE FoldBackwards(_, _, _)
FoldBackwards(options, state, events) ==
    IF events = <<>> THEN state
    ELSE LET next == Evolve(options, state, events[Len(events)])
         IN  IF IsThrown(next) THEN next
             ELSE FoldBackwards(options, next, SubSeq(events, 1, Len(events) - 1))

\* defect: a null state inside the fold is replaced by initialState() again
RECURSIVE FoldReinitialises(_, _, _)
FoldReinitialises(options, state, events) ==
    IF events = <<>> THEN state
    ELSE LET next == Evolve(options, state, Head(events))
         IN  IF IsThrown(next) THEN next
             ELSE FoldReinitialises(options, WorkingState(options, next), Tail(events))

\* for (const event of events) state = await options.evolve(state, event)
RECURSIVE Fold(_, _, _)
Fold(options, state, events) ==
    IF events = <<>> THEN state
    ELSE LET next == Evolve(options, state, Head(events))
         IN  IF IsThrown(next) THEN next ELSE Fold(options, next, Tail(events))

\* defect: the position of the first event of the batch
MetadataFirstEvent(definition, streamId, events) ==
    [streamId |-> streamId,
     name |-> definition.name,
     schemaVersion |-> definition.schemaVersion,
     streamPosition |-> BigIntToString(events[1].metadata.streamPosition)]

Metadata(definition, streamId, events) ==
    [streamId |-> streamId,
     name |-> definition.name,
     schemaVersion |-> definition.schemaVersion,
     streamPosition |-> BigIntToString(events[Len(events)].metadata.streamPosition)]

\* { ...state, _metadata: metadata }
WithMetadata(state, metadata) ==
    [k \in DOMAIN state \cup {"_metadata"} |->
        IF k = "_metadata" THEN metadata ELSE state[k]]

\* the values evolve returns during the fold, one per event, up to a throw
RECURSIVE EvolveResults(_, _, _)
EvolveResults(options, state, events) ==
    IF events = <<>> THEN <<>>
    ELSE LET next == Evolve(options, state, Head(events))
         IN  IF IsThrown(next) THEN <<next>>
             ELSE <<next>> \o EvolveResults(options, next, Tail(events))

\* the states evolve is called with during the fold, one per call
EvolveInputs(options, state, events) ==
    LET results == EvolveResults(options, state, events)
    IN  IF events = <<>> THEN <<>>
        ELSE <<state>> \o SubSeq(results, 1, Len(results) - 1)

\* the states handle passes to options.evolve for a batch and a document
HandleInputs(definition, events, document) ==
    IF Len(events) = 0 THEN <<>>
    ELSE EvolveInputs(definition.options,
                      WorkingState(definition.options, StripMetadata(document)), events)

\* defect: a null state writes nothing, the stored document is never removed
HandleNeverRemoves(definition, events, document, streamId) ==
    IF Len(events) = 0 THEN [op |-> "none"]
    ELSE LET state == Fold(definition.options,
                           WorkingState(definition.options, StripMetadata(document)),
                           events)
         IN  IF IsThrown(state) THEN [op |-> "throw", error |-> state.thrown]
             ELSE IF state # Null
             THEN [op |-> "set",
                   value |-> WithMetadata(state, Metadata(definition, streamId, events))]
             ELSE [op |-> "none"]

\* defect: the remove is skipped when no document was read
HandleRemovesOnlyExisting(definition, events, document, streamId) ==
    IF Len(events) = 0 THEN [op |-> "none"]
    ELSE LET state == Fold(definition.options,
                           WorkingState(definition.options, StripMetadata(document)),
                           events)
         IN  IF IsThrown(state) THEN [op |-> "throw", error |-> state.thrown]
             ELSE IF state # Null
             THEN [op |-> "set",
                   value |-> WithMetadata(state, Metadata(definition, streamId, events))]
             ELSE IF document # Null THEN [op |-> "remove"]
             ELSE [op |-> "none"]

\* defect: events at or below the stored streamPosition are skipped
HandleSkipsApplied(definition, events, document, streamId) ==
    LET fresh == SelectSeq(events, LAMBDA e :
                     document = Null
                     \/ e.metadata.streamPosition > BigInt(document._metadata.streamPosition))
    IN  IF Len(fresh) = 0 THEN [op |-> "none"]
        ELSE LET state == Fold(definition.options,
                               WorkingState(definition.options, StripMetadata(document)),
                               fresh)
             IN  IF IsThrown(state) THEN [op |-> "throw", error |-> state.thrown]
                 ELSE IF state # Null
                 THEN [op |-> "set",
                       value |-> WithMetadata(state, Metadata(definition, streamId, fresh))]
                 ELSE [op |-> "remove"]

\* defect: the state is stored as soon as the first event has been applied
HandleStoresIntermediate(definition, events, document, streamId) ==
    IF Len(events) = 0 THEN [op |-> "none"]
    ELSE LET state == Evolve(definition.options,
                             WorkingState(definition.options, StripMetadata(document)),
                             events[1])
         IN  IF IsThrown(state) THEN [op |-> "throw", error |-> state.thrown]
             ELSE IF state # Null
             THEN [op |-> "set",
                   value |-> WithMetadata(state, Metadata(definition, streamId, events))]
             ELSE [op |-> "remove"]

\* defect: each projection is given only the events whose type it can handle
HandleFiltersEvents(definition, events, document, streamId) ==
    LET own == SelectSeq(events, LAMBDA e : e.type \in Range(definition.canHandle))
    IN  IF Len(own) = 0 THEN [op |-> "none"]
        ELSE LET state == Fold(definition.options,
                               WorkingState(definition.options, StripMetadata(document)),
                               own)
             IN  IF IsThrown(state) THEN [op |-> "throw", error |-> state.thrown]
                 ELSE IF state # Null
                 THEN [op |-> "set",
                       value |-> WithMetadata(state, Metadata(definition, streamId, own))]
                 ELSE [op |-> "remove"]

\* What handle(events, {document, streamId, projectionRef}) does to the store:
\* nothing, a set of the whole document, a remove, or it throws.
Handle(definition, events, document, streamId) ==
    IF Len(events) = 0 THEN [op |-> "none"]
    ELSE LET rawDocument == StripMetadata(document)
             state == Fold(definition.options,
                           WorkingState(definition.options, rawDocument), events)
         IN  IF IsThrown(state) THEN [op |-> "throw", error |-> state.thrown]
             ELSE IF state # Null
             THEN [op |-> "set",
                   value |-> WithMetadata(state, Metadata(definition, streamId, events))]
             ELSE [op |-> "remove"]

----------------------------------------------------------------------------
(* The dispatcher: handleInlineProjections *)

\* defect: no filter, every registered projection is processed
MatchingProjectionsUnfiltered(events, allProjections) == allProjections

\* defect: p.canHandle.every(...) over the batch's types, a projection is kept
\* only when it handles every event type of the batch
RECURSIVE MatchingProjectionsEvery(_, _)
MatchingProjectionsEvery(events, allProjections) ==
    IF allProjections = <<>> THEN <<>>
    ELSE LET eventTypes == {events[i].type : i \in DOMAIN events}
             p == Head(allProjections)
         IN  (IF eventTypes \subseteq Range(p.canHandle) THEN <<p>> ELSE <<>>)
                 \o MatchingProjectionsEvery(events, Tail(allProjections))

CanHandleSome(projection, eventTypes) ==
    \E i \in DOMAIN projection.canHandle : projection.canHandle[i] \in eventTypes

\* allProjections.filter((p) => p.canHandle.some((type) => eventTypes.includes(type)))
RECURSIVE MatchingProjections(_, _)
MatchingProjections(events, allProjections) ==
    IF allProjections = <<>> THEN <<>>
    ELSE LET eventTypes == {events[i].type : i \in DOMAIN events}
             p == Head(allProjections)
         IN  (IF CanHandleSome(p, eventTypes) THEN <<p>> ELSE <<>>)
                 \o MatchingProjections(events, Tail(allProjections))

----------------------------------------------------------------------------
(* The append interceptor: wireRealtimeDBProjections *)

\* defect: nextExpectedStreamVersion || streamVersion, a version 0 counts as
\* absent
VersionValueTruthy(result) ==
    IF "nextExpectedStreamVersion" \in DOMAIN result /\ result.nextExpectedStreamVersion # 0
    THEN result.nextExpectedStreamVersion
    ELSE IF "streamVersion" \in DOMAIN result THEN result.streamVersion
    ELSE result.nextExpectedStreamVersion

\* result.nextExpectedStreamVersion ?? result.streamVersion
VersionValue(result) ==
    IF "nextExpectedStreamVersion" \in DOMAIN result
    THEN result.nextExpectedStreamVersion
    ELSE result.streamVersion

\* defect: the positions of the comment above the code, one too low
ReadEventsOneLower(streamName, events, result) ==
    LET eventsLength == Len(events)
        nextVersion == VersionValue(result)
    IN  [i \in DOMAIN events |->
            LET index == i - 1
                position == nextVersion - eventsLength + index
                metadata == [streamName |-> streamName,
                             streamPosition |-> position,
                             messageId |-> streamName \o "-" \o BigIntToString(position)]
            IN  [k \in DOMAIN events[i] \cup {"metadata"} |->
                    IF k = "metadata" THEN metadata ELSE events[i][k]]]

\* defect: { metadata: {...}, ...event }, the caller's own metadata wins
ReadEventsCallerMetadataWins(streamName, events, result) ==
    LET eventsLength == Len(events)
        nextVersion == VersionValue(result)
    IN  [i \in DOMAIN events |->
            LET index == i - 1
                position == nextVersion - eventsLength + 1 + index
                metadata == [streamName |-> streamName,
                             streamPosition |-> position,
                             messageId |-> streamName \o "-" \o BigIntToString(position)]
            IN  [k \in DOMAIN events[i] \cup {"metadata"} |->
                    IF k \in DOMAIN events[i] THEN events[i][k] ELSE metadata]]

ReadEvents(streamName, events, result) ==
    LET eventsLength == Len(events)
        nextVersion == VersionValue(result)
    IN  [i \in DOMAIN events |->
            LET index == i - 1
                position == nextVersion - eventsLength + 1 + index
                metadata == [streamName |-> streamName,
                             streamPosition |-> position,
                             messageId |-> streamName \o "-" \o BigIntToString(position)]
            IN  [k \in DOMAIN events[i] \cup {"metadata"} |->
                    IF k = "metadata" THEN metadata ELSE events[i][k]]]

----------------------------------------------------------------------------
(* The resilient read: readSnapshotWithRetry *)

READ_TIMEOUTS_MS == <<5000, 8000, 12000>>

TIMEOUT_ERROR_MESSAGE == "Realtime DB read timed out."

\* defect: every failed read counts as a timeout
isTimeoutErrorAny(error) == error # Null

\* error instanceof Error && error.message === TIMEOUT_ERROR_MESSAGE
isTimeoutError(error) == "error" \in DOMAIN error /\ error.error = TIMEOUT_ERROR_MESSAGE

\* defect: the connection is put online again without going offline first
resetGoOnlineOnly == <<[op |-> "goOnline", at |-> ""]>>

\* the store operations of resetRealtimeDbConnection
resetRealtimeDbConnection == <<[op |-> "goOffline", at |-> ""], [op |-> "goOnline", at |-> ""]>>

\* what can go wrong inside the reset: nothing, goOffline throws, goOnline throws
ResetFaults == {"none", "goOffline", "goOnline"}

\* try { goOffline(); goOnline() } catch (error) { safeLog.error(...) }: the
\* calls made on the database; a throw ends the try block and is only logged
ResetWhen(fault) ==
    CASE fault = "none" -> resetRealtimeDbConnection
      [] fault = "goOffline" ->
           <<[op |-> "goOffline", at |-> ""],
             [op |-> "resetFailed", at |-> "", error |-> Error("goOffline failed")]>>
      [] fault = "goOnline" ->
           resetRealtimeDbConnection
               \o <<[op |-> "resetFailed", at |-> "", error |-> Error("goOnline failed")]>>

\* throw lastError instanceof Error ? lastError
\*                                   : new Error('Realtime DB read failed after retries.')
ThrowAfterRetries(error) ==
    IF "error" \in DOMAIN error THEN error
    ELSE Error("Realtime DB read failed after retries.")

----------------------------------------------------------------------------
(* The event store behind the wrapped appendToStream *)

\* The result of the original append; which version fields it carries depends
\* on the event store's API (the mocks of the tests return any of the three).
AppendResult(variant, version, count) ==
    CASE variant = "new" -> [nextExpectedStreamVersion |-> version]
      [] variant = "old" -> [streamVersion |-> version]
      [] variant = "both" -> [streamVersion |-> version - count,
                              nextExpectedStreamVersion |-> version]

----------------------------------------------------------------------------
(* One wrapped appendToStream call *)

IdleCall ==
    [streamName |-> "", events |-> <<>>, result |-> Null, index |-> 0,
     pc |-> "idle", readEvents |-> <<>>, projections |-> <<>>, attempt |-> 0,
     lastError |-> Null, pending |-> Null, outcome |-> Null, log |-> <<>>,
     overlapped |-> FALSE, logger |-> Null, logged |-> <<>>]

\* defect: with a logger the document is fetched once more for the log record
safeLogReadsAgain(call, level, msg) ==
    IF call.logger = Null THEN call
    ELSE [call EXCEPT !.logged = Append(@, [level |-> level, msg |-> msg]),
                      !.log = Append(@, [op |-> "once", at |-> ""])]

\* safeLog.debug / warn / error (logger, msg, ...): nothing without a logger,
\* else one call of the logger's method, recorded with the call
safeLog(call, level, msg) ==
    IF call.logger = Null THEN call
    ELSE [call EXCEPT !.logged = Append(@, [level |-> level, msg |-> msg])]

Settled(call) == call.pc \in {"idle", "resolved", "rejected"}

Active(call) == ~Settled(call)

\* the projection the call is working on, and its document's path
Current(call) == call.projections[call.index]

CurrentPath(call) == ProjectionPath(Current(call).name, call.streamName)

\* defect: the catch logs the error and returns the append's result
RejectSwallowed(call, error) ==
    [call EXCEPT !.pc = "resolved", !.outcome = [resolved |-> call.result]]

\* the loop of handleInlineProjections is over; return result: the wrapped
\* appendToStream resolves with the append's result
Resolve(call) ==
    LET completed == safeLog(safeLog(call, "debug", "Projections handling completed"),
                             "debug", "Append completed")
    IN  [completed EXCEPT !.pc = "resolved", !.outcome = [resolved |-> call.result]]

\* defect: the catch throws a new error that carries the original as its cause
RejectWrapped(call, error) ==
    [safeLog(call, "error", "Failed to append to stream")
        EXCEPT !.pc = "rejected",
               !.outcome = [rejected |-> [error |-> "Failed to append to stream",
                                          cause |-> error]]]

\* catch (error) { ...; throw error }: the wrapped appendToStream rejects
Reject(call, error) ==
    [safeLog(call, "error", "Failed to append to stream")
        EXCEPT !.pc = "rejected", !.outcome = [rejected |-> error]]

\* defect: the loop catches the error of one projection and goes on
FailDispatchContinue(call, error) ==
    IF call.index + 1 > Len(call.projections)
    THEN [call EXCEPT !.pc = "resolved", !.index = @ + 1,
                      !.outcome = [resolved |-> call.result]]
    ELSE [call EXCEPT !.pc = "reading", !.index = @ + 1, !.attempt = 0,
                      !.log = Append(@, [op |-> "once",
                                 at |-> ProjectionPath(call.projections[call.index + 1].name,
                                                       call.streamName)])]

\* defect: the catch of handleSingleProjection removes the document of the
\* projection that failed
FailDispatchRemoves(call, error) ==
    Reject([call EXCEPT !.log = Append(@, [op |-> "remove", at |-> CurrentPath(call)])],
           error)

\* handleSingleProjection and handleInlineProjections rethrow what the read or
\* the projection's handle threw: the loop is left and the error reaches the
\* catch of the wrapped appendToStream
FailDispatch(call, error) ==
    Reject(safeLog(safeLog(call, "error", "Failed to handle projection"),
                   "error", "Failed to handle projections"),
           error)

\* defect: Promise.all over the projections, every read is issued at once
IssueReadAll(projections, index, streamId) ==
    IF index = 1
    THEN [j \in DOMAIN projections |->
             [op |-> "once", at |-> ProjectionPath(projections[j].name, streamId)]]
    ELSE <<>>

\* the store operations issued when the loop of handleInlineProjections reaches
\* the projection at index: the first read attempt of that projection
IssueRead(projections, index, streamId) ==
    <<[op |-> "once", at |-> ProjectionPath(projections[index].name, streamId)]>>

\* defect: the loop ends after the first projection
BeginProjectionFirstOnly(call, index) ==
    IF index > 1 \/ index > Len(call.projections)
    THEN Resolve([call EXCEPT !.index = index])
    ELSE [safeLog(call, "debug", "Handling projection")
             EXCEPT !.pc = "reading", !.index = index, !.attempt = 0,
                    !.lastError = Null, !.pending = Null,
                    !.log = @ \o IssueRead(call.projections, index, call.streamName)]

\* for (const projection of projections) await handleSingleProjection(...):
\* the step to the projection at index, or the end of the loop
BeginProjection(call, index) ==
    IF index > Len(call.projections)
    THEN Resolve([call EXCEPT !.index = index])
    ELSE [safeLog(call, "debug", "Handling projection")
             EXCEPT !.pc = "reading", !.index = index, !.attempt = 0,
                    !.lastError = Null, !.pending = Null,
                    !.log = @ \o IssueRead(call.projections, index, call.streamName)]

\* handleInlineProjections({events, projections, streamId, database})
Dispatch(call, events, allProjections) ==
    LET filtered == [call EXCEPT !.readEvents = events,
                                 !.projections = MatchingProjections(events, allProjections)]
    IN  BeginProjection(safeLog(safeLog(filtered, "debug", "Handling inline projections"),
                                "debug", "Filtered projections"),
                        1)

----------------------------------------------------------------------------
(* Actions *)

Init ==
    /\ eventStore = [s \in Streams |-> 0]
    /\ store = [p \in Paths |-> Null]
    /\ calls = [c \in Callers |-> IdleCall]
    /\ api \in {"new", "old", "both"}
    /\ started = 0

\* the wrapped appendToStream of an event store wired with the logger (or
\* none) is entered: it calls the original append
Entered(streamName, events, logger) ==
    safeLog([IdleCall EXCEPT !.pc = "appending", !.streamName = streamName,
                             !.events = events, !.logger = logger,
                             !.log = <<[op |-> "append", at |-> streamName]>>],
            "debug", "Appending to stream")

\* a caller enters the wrapped appendToStream, which calls the original append
Start(c, streamName, events) ==
    /\ Settled(calls[c])
    /\ started < MaxCalls
    /\ started' = started + 1
    /\ LET overlaps(d) == d # c /\ Active(calls[d]) /\ calls[d].streamName = streamName
       IN  calls' = [d \in Callers |->
                IF d = c
                THEN [Entered(streamName, events, Null)
                         EXCEPT !.overlapped = \E e \in Callers : overlaps(e)]
                ELSE IF overlaps(d) THEN [calls[d] EXCEPT !.overlapped = TRUE]
                ELSE calls[d]]
    /\ UNCHANGED <<eventStore, store, api>>

\* defect: the failure of the append is logged and the dispatch runs anyway,
\* on the version the stream has
AppendRejectedDispatches(call, error, version) ==
    Dispatch([call EXCEPT !.result = [streamVersion |-> version]],
             ReadEvents(call.streamName, call.events, [streamVersion |-> version]),
             Projections)

\* await originalAppend(...) throws: nothing after it in the try block runs,
\* the catch rethrows the error
AppendRejected(call, error, version) == Reject(call, error)

\* the original append rejects
AppendFail(c) ==
    /\ calls[c].pc = "appending"
    /\ LET error == Error("Append failed")
           call == [calls[c] EXCEPT !.log = Append(@, [op |-> "appendRejected",
                                                       at |-> calls[c].streamName,
                                                       error |-> error])]
       IN  calls' = [calls EXCEPT ![c] =
              AppendRejected(call, error, eventStore[call.streamName])]
    /\ UNCHANGED <<eventStore, store, api, started>>

\* the original append resolves: the events are in the stream; the read events
\* are rebuilt and the dispatch starts
AppendOk(c) ==
    /\ calls[c].pc = "appending"
    /\ LET call == calls[c]
           version == eventStore[call.streamName] + Len(call.events)
           result == AppendResult(api, version, Len(call.events))
           readEvents == ReadEvents(call.streamName, call.events, result)
       IN  /\ eventStore' = [eventStore EXCEPT ![call.streamName] = version]
           /\ calls' = [calls EXCEPT ![c] =
                  Dispatch([call EXCEPT !.result = result], readEvents, Projections)]
    /\ UNCHANGED <<store, api, started>>

\* handleSingleProjection once the snapshot is there: the projection's handle
\* is called with the document; it folds the batch and issues a set or a
\* remove, or throws
SnapshotRead(call, document) ==
    LET did == Handle(Current(call), call.readEvents, document, call.streamName)
        handled == [safeLog(call, "debug", "Read document")
                       EXCEPT !.log = Append(@, [op |-> "handle", at |-> Current(call).name,
                                                 document |-> document])]
    IN  CASE did.op = "throw" -> FailDispatch(handled, did.error)
          [] did.op = "none" -> BeginProjection(handled, call.index + 1)
          [] did.op = "set" ->
               [handled EXCEPT !.pc = "writing", !.pending = did,
                    !.log = Append(@, [op |-> "set", at |-> CurrentPath(call),
                                       value |-> did.value])]
          [] did.op = "remove" ->
               [handled EXCEPT !.pc = "writing", !.pending = did,
                    !.log = Append(@, [op |-> "remove", at |-> CurrentPath(call)])]

\* a read attempt returns its snapshot in time
ReadOk(c) ==
    /\ calls[c].pc = "reading"
    /\ calls' = [calls EXCEPT ![c] =
           SnapshotRead(calls[c], DbGet(store, CurrentPath(calls[c])))]
    /\ UNCHANGED <<eventStore, store, api, started>>

\* defect: the loop gives up after the second failed attempt
ReadFailureGivesUpEarly(call, error) ==
    LET reset == IF isTimeoutError(error) THEN resetRealtimeDbConnection ELSE <<>>
        failed == [call EXCEPT !.lastError = error, !.log = @ \o reset]
    IN  IF call.attempt < Len(READ_TIMEOUTS_MS) - 2
        THEN [failed EXCEPT !.attempt = @ + 1,
                            !.log = Append(@, [op |-> "once", at |-> CurrentPath(call)])]
        ELSE FailDispatch(failed, failed.lastError)

\* defect: the last attempt awaits the read without a timer
ReadFailureLastAttemptWaits(call, error, fault) ==
    LET reset == IF isTimeoutError(error) THEN ResetWhen(fault) ELSE <<>>
        failed == [call EXCEPT !.lastError = error, !.log = @ \o reset]
    IN  IF call.attempt < Len(READ_TIMEOUTS_MS) - 2
        THEN [failed EXCEPT !.attempt = @ + 1,
                            !.log = Append(@, [op |-> "once", at |-> CurrentPath(call)])]
        ELSE [failed EXCEPT !.attempt = @ + 1, !.pc = "waiting",
                            !.log = Append(@, [op |-> "once", at |-> CurrentPath(call)])]

\* defect: the first error is kept, later attempts do not replace it
ReadFailureKeepsFirstError(call, error, fault) ==
    LET reset == IF isTimeoutError(error) THEN ResetWhen(fault) ELSE <<>>
        failed == [call EXCEPT !.lastError = IF @ = Null THEN error ELSE @,
                               !.log = @ \o reset]
    IN  IF call.attempt < Len(READ_TIMEOUTS_MS) - 1
        THEN [failed EXCEPT !.attempt = @ + 1,
                            !.log = Append(@, [op |-> "once", at |-> CurrentPath(call)])]
        ELSE FailDispatch(failed, ThrowAfterRetries(failed.lastError))

\* defect: an error thrown by goOffline or goOnline leaves the retry loop
ReadFailureResetThrows(call, error, fault) ==
    LET reset == IF isTimeoutError(error) THEN ResetWhen(fault) ELSE <<>>
        failed == [call EXCEPT !.lastError = error, !.log = @ \o reset]
    IN  IF isTimeoutError(error) /\ fault # "none"
        THEN FailDispatch(failed, Last(reset).error)
        ELSE IF call.attempt < Len(READ_TIMEOUTS_MS) - 1
        THEN [failed EXCEPT !.attempt = @ + 1,
                            !.log = Append(@, [op |-> "once", at |-> CurrentPath(call)])]
        ELSE FailDispatch(failed, ThrowAfterRetries(failed.lastError))

\* defect: no reset after the last attempt, where no retry follows
ReadFailureNoResetAtEnd(call, error, fault) ==
    LET retrying == call.attempt < Len(READ_TIMEOUTS_MS) - 1
        reset == IF isTimeoutError(error) /\ retrying THEN ResetWhen(fault) ELSE <<>>
        failed == [call EXCEPT !.lastError = error, !.log = @ \o reset]
    IN  IF retrying
        THEN [failed EXCEPT !.attempt = @ + 1,
                            !.log = Append(@, [op |-> "once", at |-> CurrentPath(call)])]
        ELSE FailDispatch(failed, ThrowAfterRetries(failed.lastError))

\* catch (error) of readSnapshotWithRetry: remember the error, reset the
\* connection after a timeout, back off and try again, or give up after the
\* last attempt and throw the last error
ReadFailureWhen(call, error, fault) ==
    LET warned == safeLog(call, "warn", "Realtime DB read failed, retrying")
        resetting == IF isTimeoutError(error)
                     THEN safeLog(warned, "warn",
                                  "Resetting Realtime DB connection after timeout")
                     ELSE warned
        logged == IF isTimeoutError(error) /\ fault # "none"
                  THEN safeLog(resetting, "error", "Failed to reset Realtime DB connection")
                  ELSE resetting
        reset == IF isTimeoutError(error) THEN ResetWhen(fault) ELSE <<>>
        failed == [logged EXCEPT !.lastError = error, !.log = @ \o reset]
    IN  IF call.attempt < Len(READ_TIMEOUTS_MS) - 1
        THEN [failed EXCEPT !.attempt = @ + 1,
                            !.log = Append(@, [op |-> "once", at |-> CurrentPath(call)])]
        ELSE FailDispatch(safeLog(failed, "error", "Realtime DB read failed after retries"),
                          ThrowAfterRetries(failed.lastError))

\* the same when the connection reset, if any, goes through
ReadFailure(call, error) == ReadFailureWhen(call, error, "none")

\* the timer of withTimeout fires before the read settles: the race rejects
\* with new Error(TIMEOUT_ERROR_MESSAGE)
ReadTimeout(c) ==
    /\ calls[c].pc = "reading"
    /\ LET call == [calls[c] EXCEPT !.log = Append(@, [op |-> "timer",
                                                       at |-> CurrentPath(calls[c])])]
       IN  calls' = [calls EXCEPT ![c] = ReadFailure(call, Error(TIMEOUT_ERROR_MESSAGE))]
    /\ UNCHANGED <<eventStore, store, api, started>>

\* the timer fires and the connection reset that follows throws
ReadTimeoutResetFails(c, fault) ==
    /\ calls[c].pc = "reading"
    /\ LET call == [calls[c] EXCEPT !.log = Append(@, [op |-> "timer",
                                                       at |-> CurrentPath(calls[c])])]
       IN  calls' = [calls EXCEPT ![c] =
              ReadFailureWhen(call, Error(TIMEOUT_ERROR_MESSAGE), fault)]
    /\ UNCHANGED <<eventStore, store, api, started>>

\* the errors the underlying read can reject with: any Error, whatever its
\* message
ReadErrors == {Error("permission_denied"), Error("Realtime DB read timed out.")}

\* the read itself rejects with the error before the timer fires
ReadRejected(c, error) ==
    /\ calls[c].pc = "reading"
    /\ LET call == [calls[c] EXCEPT !.log = Append(@, [op |-> "rejected",
                                                       at |-> CurrentPath(calls[c]),
                                                       error |-> error])]
       IN  calls' = [calls EXCEPT ![c] = ReadFailure(call, error)]
    /\ UNCHANGED <<eventStore, store, api, started>>

\* the read is refused by the database
ReadError(c) == ReadRejected(c, Error("permission_denied"))

\* the set or remove reaches the store and resolves; the loop goes on
WriteDone(c) ==
    /\ calls[c].pc = "writing"
    /\ LET call == calls[c]
           path == CurrentPath(call)
           written == [call EXCEPT !.log = Append(@, [op |-> "settled", at |-> path])]
       IN  /\ store' = IF call.pending.op = "set"
                       THEN DbSet(store, path, call.pending.value)
                       ELSE DbRemove(store, path)
           /\ calls' = [calls EXCEPT ![c] = BeginProjection(written, call.index + 1)]
    /\ UNCHANGED <<eventStore, api, started>>

\* One caller appends batch after batch, each call settled before the next;
\* every read attempt answers in time.
Next ==
    \/ \E s \in Streams, b \in Batches : Start("c1", s, b)
    \/ AppendFail("c1")
    \/ AppendOk("c1")
    \/ ReadOk("c1")
    \/ WriteDone("c1")

Spec == Init /\ [][Next]_vars

\* One wrapped append whose read attempts may time out or fail.
NextRead ==
    \/ \E s \in Streams, b \in Batches : started = 0 /\ Start("c1", s, b)
    \/ AppendFail("c1")
    \/ AppendOk("c1")
    \/ ReadOk("c1")
    \/ ReadTimeout("c1")
    \/ ReadError("c1")
    \/ WriteDone("c1")

SpecRead == Init /\ [][NextRead]_vars

\* One wrapped append whose read attempts may time out or be rejected with any
\* of the errors.
NextRejected ==
    \/ \E b \in Batches : started = 0 /\ Start("c1", "s1", b)
    \/ AppendOk("c1")
    \/ ReadOk("c1")
    \/ ReadTimeout("c1")
    \/ \E error \in ReadErrors : ReadRejected("c1", error)
    \/ WriteDone("c1")

SpecRejected == Init /\ [][NextRejected]_vars

\* what a read can reject with when the database fails: an Error, or a value
\* that is no Error
ReadRejections == {Error("permission_denied"), [reason |-> "unavailable"]}

SingleEventBatches == {b \in Batches : Len(b) = 1}

\* One wrapped append of one event whose read attempts may time out; the
\* connection reset after a timeout may throw.
NextReset ==
    \/ \E b \in SingleEventBatches : started = 0 /\ Start("c1", "s1", b)
    \/ AppendOk("c1")
    \/ ReadOk("c1")
    \/ ReadTimeout("c1")
    \/ \E fault \in ResetFaults \ {"none"} : ReadTimeoutResetFails("c1", fault)
    \/ WriteDone("c1")

SpecReset == Init /\ [][NextReset]_vars

\* One wrapped append of one event whose read attempts may time out or be
\* rejected with an Error or with another value.
NextGiveUp ==
    \/ \E b \in SingleEventBatches : started = 0 /\ Start("c1", "s1", b)
    \/ AppendOk("c1")
    \/ ReadOk("c1")
    \/ ReadTimeout("c1")
    \/ \E value \in ReadRejections : ReadRejected("c1", value)
    \/ WriteDone("c1")

SpecGiveUp == Init /\ [][NextGiveUp]_vars

\* Two callers, one wrapped append each, to one stream: the calls may overlap
\* or follow each other.
NextRace ==
    \/ \E c \in Callers, b \in Batches : calls[c].pc = "idle" /\ Start(c, "s1", b)
    \/ \E c \in Callers : AppendFail(c)
    \/ \E c \in Callers : AppendOk(c)
    \/ \E c \in Callers : ReadOk(c)
    \/ \E c \in Callers : WriteDone(c)

SpecRace == Init /\ [][NextRace]_vars


\* One wrapped append under the scheduling the code relies on: the timer of a
\* read attempt fires when the read has not settled (setTimeout), the original
\* append and the store's set and remove terminate.  Nothing makes the
\* underlying read settle: it may answer, be rejected, or stay pending for
\* ever.
NextLive ==
    \/ \E b \in Batches : started = 0 /\ Start("c1", "s1", b)
    \/ AppendFail("c1")
    \/ AppendOk("c1")
    \/ ReadOk("c1")
    \/ ReadTimeout("c1")
    \/ ReadError("c1")
    \/ WriteDone("c1")

SpecLive ==
    /\ Init
    /\ [][NextLive]_vars
    /\ WF_vars(AppendFail("c1") \/ AppendOk("c1"))
    /\ WF_vars(ReadTimeout("c1"))
    /\ WF_vars(WriteDone("c1"))

----------------------------------------------------------------------------
(* The other entry points that apply events *)

\* read events as the fixtures build them for a direct call: positions 1..n
ReadBatches(streamId) ==
    {[i \in DOMAIN ts |->
         createReadEvent([type |-> ts[i], data |-> EventData(ts[i])], i, streamId)] :
     ts \in SeqsUpTo(EventTypes, MaxBatch)}

\* handleInlineProjections called by the integrator, without the wrapper
CallHandleInlineProjections(c, streamId, events) ==
    /\ Settled(calls[c])
    /\ started < MaxCalls
    /\ started' = started + 1
    /\ calls' = [calls EXCEPT ![c] =
           Dispatch([IdleCall EXCEPT !.streamName = streamId], events, Projections)]
    /\ UNCHANGED <<eventStore, store, api>>

\* testProjection(projection, events, {database, streamId}): one plain read of
\* the projection's document, then the projection's handle
testProjection(c, projection, events, streamId) ==
    /\ Settled(calls[c])
    /\ started < MaxCalls
    /\ started' = started + 1
    /\ calls' = [calls EXCEPT ![c] =
           [IdleCall EXCEPT !.pc = "reading", !.streamName = streamId,
                            !.readEvents = events, !.projections = <<projection>>,
                            !.index = 1,
                            !.log = <<[op |-> "once",
                                       at |-> ProjectionPath(projection.name, streamId)]>>]]
    /\ UNCHANGED <<eventStore, store, api>>

\* projection.handle(events, {document, streamId, projectionRef}) called with a
\* document the caller holds
CallHandle(c, projection, events, document, streamId) ==
    /\ Settled(calls[c])
    /\ started < MaxCalls
    /\ started' = started + 1
    /\ LET path == ProjectionPath(projection.name, streamId)
           did == Handle(projection, events, document, streamId)
           handled == [IdleCall EXCEPT !.streamName = streamId, !.readEvents = events,
                                       !.projections = <<projection>>, !.index = 1,
                                       !.log = <<[op |-> "handle", at |-> projection.name,
                                                  document |-> document]>>]
       IN  calls' = [calls EXCEPT ![c] =
              CASE did.op = "throw" -> Reject(handled, did.error)
                [] did.op = "none" -> Resolve(handled)
                [] did.op = "set" ->
                     [handled EXCEPT !.pc = "writing", !.pending = did,
                          !.log = Append(@, [op |-> "set", at |-> path,
                                             value |-> did.value])]
                [] did.op = "remove" ->
                     [handled EXCEPT !.pc = "writing", !.pending = did,
                          !.log = Append(@, [op |-> "remove", at |-> path])]]
    /\ UNCHANGED <<eventStore, store, api>>

\* One call through any of the entry points that apply events: the wrapped
\* appendToStream, handleInlineProjections, testProjection or a handle.
NextEntry ==
    \/ \E b \in Batches : started = 0 /\ Start("c1", "s1", b)
    \/ AppendFail("c1")
    \/ AppendOk("c1")
    \/ \E b \in ReadBatches("s1") : started = 0 /\ CallHandleInlineProjections("c1", "s1", b)
    \/ \E i \in DOMAIN Projections, b \in ReadBatches("s1") :
           started = 0 /\ testProjection("c1", Projections[i], b, "s1")
    \/ \E i \in DOMAIN Projections, b \in ReadBatches("s1") :
           started = 0 /\ CallHandle("c1", Projections[i], b, Null, "s1")
    \/ ReadOk("c1")
    \/ WriteDone("c1")

SpecEntry == Init /\ [][NextEntry]_vars

\* handleInlineProjections({events, projections, streamId, database}) with the
\* projections the integrator passes
CallHandleInlineProjectionsOf(c, streamId, events, allProjections) ==
    /\ Settled(calls[c])
    /\ started < MaxCalls
    /\ started' = started + 1
    /\ calls' = [calls EXCEPT ![c] =
           Dispatch([IdleCall EXCEPT !.streamName = streamId], events, allProjections)]
    /\ UNCHANGED <<eventStore, store, api>>

\* Dispatches, one after the other, to projections and streams whose names
\* hold a path separator.
NextPaths ==
    \/ \E i \in DOMAIN PathProjections, s \in PathStreams : \E b \in ReadBatches(s) :
           CallHandleInlineProjectionsOf("c1", s, b, <<PathProjections[i]>>)
    \/ ReadOk("c1")
    \/ WriteDone("c1")

SpecPaths == Init /\ [][NextPaths]_vars

\* Two wired appends, one after the other: the second caller enters when the
\* call of the first has settled.
NextSeq ==
    \/ \E s \in Streams, b \in Batches : calls["c1"].pc = "idle" /\ Start("c1", s, b)
    \/ \E s \in Streams, b \in Batches :
           /\ calls["c1"].pc \in {"resolved", "rejected"}
           /\ calls["c2"].pc = "idle"
           /\ Start("c2", s, b)
    \/ \E c \in Callers : AppendFail(c)
    \/ \E c \in Callers : AppendOk(c)
    \/ \E c \in Callers : ReadOk(c)
    \/ \E c \in Callers : WriteDone(c)

SpecSeq == Init /\ [][NextSeq]_vars

\* Read events dispatched to the registered projections of one stream, call
\* after call: the same events may be dispatched again.
NextAgain ==
    \/ \E b \in ReadBatches("s1") : CallHandleInlineProjections("c1", "s1", b)
    \/ ReadOk("c1")
    \/ WriteDone("c1")

SpecAgain == Init /\ [][NextAgain]_vars

\* The wired appendToStream over a mocked event store, as in the unit tests:
\* the original append resolves with whatever result the mock was given.
MockVersions == 0..3

MockResults ==
    {[nextExpectedStreamVersion |-> v] : v \in MockVersions}
        \cup {[streamVersion |-> v] : v \in MockVersions}
        \cup {[nextExpectedStreamVersion |-> w, streamVersion |-> v, createdNewStream |-> FALSE] :
                 v \in MockVersions, w \in MockVersions}

\* the append options a caller passes: none, or an expected version
AppendOptions == {Null, [expectedStreamVersion |-> 5]}

\* defect: the original append is called without the caller's options
OriginalAppendCallNoOptions(streamName, events, appendOptions) ==
    [op |-> "append", at |-> streamName, events |-> events, options |-> Null]

\* originalAppend(streamName, events, appendOptions)
OriginalAppendCall(streamName, events, appendOptions) ==
    [op |-> "append", at |-> streamName, events |-> events, options |-> appendOptions]

\* a caller enters the wrapped appendToStream(streamName, events, appendOptions)
StartWithOptions(c, streamName, events, appendOptions) ==
    /\ Settled(calls[c])
    /\ started < MaxCalls
    /\ started' = started + 1
    /\ calls' = [calls EXCEPT ![c] =
           [IdleCall EXCEPT !.pc = "appending", !.streamName = streamName,
                            !.events = events,
                            !.log = <<[op |-> "called", at |-> streamName,
                                       events |-> events, options |-> appendOptions],
                                      OriginalAppendCall(streamName, events, appendOptions)>>]]
    /\ UNCHANGED <<eventStore, store, api>>

\* the mocked original append resolves with the result
MockAppendOk(c, result) ==
    /\ calls[c].pc = "appending"
    /\ LET call == [calls[c] EXCEPT !.result = result,
                                    !.log = Append(@, [op |-> "appended",
                                                       at |-> calls[c].streamName,
                                                       result |-> result])]
           readEvents == ReadEvents(call.streamName, call.events, result)
       IN  calls' = [calls EXCEPT ![c] = Dispatch(call, readEvents, Projections)]
    /\ UNCHANGED <<eventStore, store, api, started>>

NextMock ==
    \/ \E b \in Batches, o \in AppendOptions : started = 0 /\ StartWithOptions("c1", "s1", b, o)
    \/ \E result \in MockResults : MockAppendOk("c1", result)
    \/ ReadOk("c1")
    \/ WriteDone("c1")

SpecMock == Init /\ [][NextMock]_vars

\* The same event store wired twice, without a logger for c1 and with a
\* logger that records its calls for c2.  Both callers make the same call and
\* the environment answers both alike: the same append result, the same
\* snapshots, timeouts and rejections, the writes settled together.
Wiring == [c \in Callers |-> IF c = "c1" THEN Null ELSE [logger |-> "recording"]]

BothAt(pc) == \A c \in Callers : calls[c].pc = pc

BothStart(events) ==
    /\ started = 0
    /\ started' = started + 1
    /\ calls' = [c \in Callers |-> Entered("s1", events, Wiring[c])]
    /\ UNCHANGED <<eventStore, store, api>>

BothAppendFail ==
    /\ BothAt("appending")
    /\ LET error == Error("Append failed")
       IN  calls' = [c \in Callers |->
              AppendRejected([calls[c] EXCEPT !.log = Append(@, [op |-> "appendRejected",
                                                                 at |-> calls[c].streamName,
                                                                 error |-> error])],
                             error, eventStore[calls[c].streamName])]
    /\ UNCHANGED <<eventStore, store, api, started>>

BothAppendOk ==
    /\ BothAt("appending")
    /\ LET version == eventStore["s1"] + Len(calls["c1"].events)
           result == AppendResult(api, version, Len(calls["c1"].events))
       IN  /\ eventStore' = [eventStore EXCEPT !["s1"] = version]
           /\ calls' = [c \in Callers |->
                  Dispatch([calls[c] EXCEPT !.result = result],
                           ReadEvents(calls[c].streamName, calls[c].events, result),
                           Projections)]
    /\ UNCHANGED <<store, api, started>>

BothReadOk ==
    /\ BothAt("reading")
    /\ calls' = [c \in Callers |->
           SnapshotRead(calls[c], DbGet(store, CurrentPath(calls[c])))]
    /\ UNCHANGED <<eventStore, store, api, started>>

BothReadTimeout ==
    /\ BothAt("reading")
    /\ calls' = [c \in Callers |->
           ReadFailure([calls[c] EXCEPT !.log = Append(@, [op |-> "timer",
                                                          at |-> CurrentPath(calls[c])])],
                       Error(TIMEOUT_ERROR_MESSAGE))]
    /\ UNCHANGED <<eventStore, store, api, started>>

BothReadError ==
    /\ BothAt("reading")
    /\ LET error == Error("permission_denied")
       IN  calls' = [c \in Callers |->
              ReadFailure([calls[c] EXCEPT !.log = Append(@, [op |-> "rejected",
                                                             at |-> CurrentPath(calls[c]),
                                                             error |-> error])],
                          error)]
    /\ UNCHANGED <<eventStore, store, api, started>>

\* what the pending set or remove of a call makes of the store
Write(db, call) ==
    IF call.pending.op = "set"
    THEN DbSet(db, CurrentPath(call), call.pending.value)
    ELSE DbRemove(db, CurrentPath(call))

BothWriteDone ==
    /\ BothAt("writing")
    /\ store' = Write(Write(store, calls["c1"]), calls["c2"])
    /\ calls' = [c \in Callers |->
           BeginProjection([calls[c] EXCEPT !.log = Append(@, [op |-> "settled",
                                                              at |-> CurrentPath(calls[c])])],
                           calls[c].index + 1)]
    /\ UNCHANGED <<eventStore, api, started>>

NextLog ==
    \/ \E b \in Batches : BothStart(b)
    \/ BothAppendFail
    \/ BothAppendOk
    \/ BothReadOk
    \/ BothReadTimeout
    \/ BothReadError
    \/ BothWriteDone

SpecLog == Init /\ [][NextLog]_vars

\* getProjectionState(database, projectionName, streamId): the stored
\* document with _metadata.streamPosition turned into a BigInt, or null
getProjectionState(db, projectionName, streamId) ==
    LET data == DbGet(db, ProjectionPath(projectionName, streamId))
    IN  IF data = Null THEN Null
        ELSE IF "_metadata" \in DOMAIN data
        THEN [data EXCEPT !._metadata.streamPosition = BigInt(@)]
        ELSE data

\* a caller asks for the state of a projection
CallGetProjectionState(c, projectionName, streamId) ==
    /\ calls[c].pc = "idle"
    /\ calls' = [calls EXCEPT ![c] =
           [IdleCall EXCEPT !.pc = "resolved", !.streamName = streamId,
                            !.log = <<[op |-> "once",
                                       at |-> ProjectionPath(projectionName, streamId)]>>,
                            !.outcome = [resolved |->
                                getProjectionState(store, projectionName, streamId)]]]
    /\ UNCHANGED <<eventStore, store, api, started>>

\* where the batches handed to testProjection start in their stream: the
\* beginning, positions of one and two digits, and positions no double holds
FirstPositions == {0, 9, 17, 99}

\* read events built by the fixtures from the given position on
ReadBatchesFrom(streamId, first) ==
    {[i \in DOMAIN ts |->
         createReadEvent([type |-> ts[i], data |-> EventData(ts[i])], first + i - 1, streamId)] :
     ts \in SeqsUpTo(EventTypes, MaxBatch)}

\* A projection is applied once through testProjection, then its state and
\* that of the other projections are asked for.
NextState ==
    \/ \E i \in DOMAIN Projections, first \in FirstPositions :
           \E b \in ReadBatchesFrom("s1", first) :
               started = 0 /\ testProjection("c1", Projections[i], b, "s1")
    \/ ReadOk("c1")
    \/ WriteDone("c1")
    \/ \E i \in DOMAIN Projections :
           /\ calls["c1"].pc \in {"resolved", "rejected"}
           /\ CallGetProjectionState("c2", Projections[i].name, "s1")

SpecState == Init /\ [][NextState]_vars

\* what handleInlineProjections leaves in an empty store when it resolves:
\* the documents set by the matching projections
StoreAfter(streamId, events) ==
    LET matching == MatchingProjections(events, Projections)
        did(i) == Handle(matching[i], events, Null, streamId)
    IN  [p \in Paths |->
            IF \E i \in DOMAIN matching :
                   p = ProjectionPath(matching[i].name, streamId) /\ did(i).op = "set"
            THEN did(CHOOSE i \in DOMAIN matching :
                         p = ProjectionPath(matching[i].name, streamId)).value
            ELSE Null]

\* the batches whose dispatch to an empty store resolves
ResolvedBatches(streamId) ==
    {b \in ReadBatches(streamId) :
        /\ b # <<>>
        /\ \A i \in DOMAIN Projections :
               Handle(Projections[i], b, Null, streamId).op # "throw"}

\* the store after a first batch of "s1" has been dispatched
InitStored ==
    \E b \in ResolvedBatches("s1") :
        /\ eventStore = [s \in Streams |-> IF s = "s1" THEN Len(b) ELSE 0]
        /\ store = StoreAfter("s1", b)
        /\ calls = [c \in Callers |-> IdleCall]
        /\ api = "new"
        /\ started = 0

\* The next event of the stream is dispatched, and then the batch after it.
NextStored ==
    \/ \E b \in ReadBatchesFrom("s1", eventStore["s1"] + 1) :
           /\ Len(b) = 1
           /\ calls["c1"].pc = "idle"
           /\ CallHandleInlineProjections("c1", "s1", b)
    \/ \E b \in ReadBatchesFrom("s1", eventStore["s1"] + 2) :
           /\ calls["c1"].pc \in {"resolved", "rejected"}
           /\ calls["c2"].pc = "idle"
           /\ CallHandleInlineProjections("c2", "s1", b)
    \/ \E c \in Callers : ReadOk(c)
    \/ \E c \in Callers : WriteDone(c)

SpecStored == InitStored /\ [][NextStored]_vars

\* A counter document as an earlier release of the projection stored it, with
\* a field the counter's evolve no longer produces (the unit tests hand such
\* documents to handle).
existingDocument ==
    [_metadata |-> [streamPosition |-> "2", streamId |-> "s1",
                    name |-> "test-counter", schemaVersion |-> 1],
     count |-> 5,
     label |-> "first"]

InitExisting ==
    /\ eventStore = [s \in Streams |-> IF s = "s1" THEN 2 ELSE 0]
    /\ store = [p \in Paths |->
                   IF p = ProjectionPath("test-counter", "s1") THEN existingDocument
                   ELSE Null]
    /\ calls = [c \in Callers |-> IdleCall]
    /\ api = "new"
    /\ started = 0

\* The batches that follow in the stream are dispatched, one call after the
\* other.
NextExisting ==
    \/ \E b \in ReadBatchesFrom("s1", 3) :
           calls["c1"].pc = "idle" /\ CallHandleInlineProjections("c1", "s1", b)
    \/ \E b \in ReadBatchesFrom("s1", 3 + Len(calls["c1"].readEvents)) :
           /\ calls["c1"].pc \in {"resolved", "rejected"}
           /\ calls["c2"].pc = "idle"
           /\ CallHandleInlineProjections("c2", "s1", b)
    \/ \E c \in Callers : ReadOk(c)
    \/ \E c \in Callers : WriteDone(c)

SpecExisting == InitExisting /\ [][NextExisting]_vars

\* One batch is dispatched for stream "s1" and then a batch for stream "s2",
\* both to an empty store: the second may hold the events of the first in
\* another order.
NextOrder ==
    \/ \E b \in ReadBatches("s1") :
           calls["c1"].pc = "idle" /\ CallHandleInlineProjections("c1", "s1", b)
    \/ \E b \in ReadBatches("s2") :
           /\ calls["c1"].pc \in {"resolved", "rejected"}
           /\ calls["c2"].pc = "idle"
           /\ CallHandleInlineProjections("c2", "s2", b)
    \/ \E c \in Callers : ReadOk(c)
    \/ \E c \in Callers : WriteDone(c)

SpecOrder == Init /\ [][NextOrder]_vars

\* batches one event longer than the others, so that events follow the one
\* on which evolve throws
LongBatches ==
    {[i \in DOMAIN ts |-> InputEvent(ts[i])] : ts \in SeqsUpTo(EventTypes, MaxBatch + 1)}

LongReadBatches(streamId) ==
    {[i \in DOMAIN ts |->
         createReadEvent([type |-> ts[i], data |-> EventData(ts[i])], i, streamId)] :
     ts \in SeqsUpTo(EventTypes, MaxBatch + 1)}

\* One call through the wired appendToStream, handleInlineProjections or a
\* definition's handle, with a batch in which evolve may throw before the end.
NextThrow ==
    \/ \E b \in LongBatches : started = 0 /\ Start("c1", "s1", b)
    \/ AppendOk("c1")
    \/ \E b \in LongReadBatches("s1") :
           started = 0 /\ CallHandleInlineProjections("c1", "s1", b)
    \/ \E i \in DOMAIN Projections, b \in LongReadBatches("s1") :
           started = 0 /\ CallHandle("c1", Projections[i], b, Null, "s1")
    \/ ReadOk("c1")
    \/ WriteDone("c1")

SpecThrow == Init /\ [][NextThrow]_vars

\* the store after one ItemAdded has been dispatched for "s1": the counter,
\* the cart and the nullable projection each hold a document
InitAdded ==
    \E b \in ResolvedBatches("s1") :
        /\ Len(b) = 1
        /\ b[1].type = "ItemAdded"
        /\ eventStore = [s \in Streams |-> IF s = "s1" THEN 1 ELSE 0]
        /\ store = StoreAfter("s1", b)
        /\ calls = [c \in Callers |-> IdleCall]
        /\ api = "new"
        /\ started = 0

\* The next batch of the stream is dispatched; reads may time out or be
\* refused.
NextFailing ==
    \/ \E b \in ReadBatchesFrom("s1", 2) :
           started = 0 /\ CallHandleInlineProjections("c1", "s1", b)
    \/ ReadOk("c1")
    \/ ReadTimeout("c1")
    \/ ReadError("c1")
    \/ WriteDone("c1")

SpecFailing == InitAdded /\ [][NextFailing]_vars

\* The same event store wired twice: wireRealtimeDBProjections assigns
\* eventStore.appendToStream and returns eventStore, so the second wiring
\* binds the wrapper of the first as its originalAppend.  There is one store
\* object; call "c1" is the invocation of the outer wrapper (second wiring)
\* and call "c2" the invocation of the inner wrapper (first wiring) it makes.
FirstWiring == <<counterProjection, cartProjection>>

SecondWiring == <<counterProjection, nullableProjection>>

\* a caller enters appendToStream of the store: the outer wrapper calls its
\* originalAppend, the inner wrapper, which calls the store's own append
StartTwice(streamName, events) ==
    /\ \A c \in Callers : calls[c].pc = "idle"
    /\ started < MaxCalls
    /\ started' = started + 1
    /\ calls' = [c \in Callers |-> Entered(streamName, events, Null)]
    /\ UNCHANGED <<eventStore, store, api>>

\* defect: the second wiring binds the store's own append, the first wrapper
\* is lost and the inner call returns the result without a dispatch
InnerAppendOkUnwired ==
    /\ calls["c2"].pc = "appending"
    /\ LET call == calls["c2"]
           version == eventStore[call.streamName] + Len(call.events)
           result == AppendResult(api, version, Len(call.events))
       IN  /\ eventStore' = [eventStore EXCEPT ![call.streamName] = version]
           /\ calls' = [calls EXCEPT !["c2"] = Resolve([call EXCEPT !.result = result])]
    /\ UNCHANGED <<store, api, started>>

\* the store's own append resolves inside the inner wrapper, which dispatches
\* to the projections of the first wiring
InnerAppendOk ==
    /\ calls["c2"].pc = "appending"
    /\ LET call == calls["c2"]
           version == eventStore[call.streamName] + Len(call.events)
           result == AppendResult(api, version, Len(call.events))
           readEvents == ReadEvents(call.streamName, call.events, result)
       IN  /\ eventStore' = [eventStore EXCEPT ![call.streamName] = version]
           /\ calls' = [calls EXCEPT !["c2"] =
                  Dispatch([call EXCEPT !.result = result], readEvents, FirstWiring)]
    /\ UNCHANGED <<store, api, started>>

\* await originalAppend(...) of the outer wrapper settles with what the inner
\* wrapper returned or threw: the outer wrapper dispatches to the projections
\* of the second wiring, or rethrows
OuterAppendSettled ==
    /\ calls["c1"].pc = "appending"
    /\ calls["c2"].pc \in {"resolved", "rejected"}
    /\ LET call == calls["c1"]
       IN  IF calls["c2"].pc = "resolved"
           THEN LET result == calls["c2"].outcome.resolved
                IN  calls' = [calls EXCEPT !["c1"] =
                        Dispatch([call EXCEPT !.result = result],
                                 ReadEvents(call.streamName, call.events, result),
                                 SecondWiring)]
           ELSE calls' = [calls EXCEPT !["c1"] =
                    AppendRejected(call, calls["c2"].outcome.rejected,
                                   eventStore[call.streamName])]
    /\ UNCHANGED <<eventStore, store, api, started>>

NextTwice ==
    \/ \E b \in Batches : StartTwice("s1", b)
    \/ AppendFail("c2")
    \/ InnerAppendOk
    \/ OuterAppendSettled
    \/ \E c \in Callers : ReadOk(c)
    \/ \E c \in Callers : WriteDone(c)

SpecTwice == Init /\ [][NextTwice]_vars

----------------------------------------------------------------------------
(* What the log of a call says *)

StoreOps == {"once", "set", "remove"}

\* the entries of a log with one of the given operations on one target
OpsAt(log, at, ops) == {i \in DOMAIN log : log[i].op \in ops /\ log[i].at = at}

PathOf(call, projection) == ProjectionPath(projection.name, call.streamName)

\* no read, no set, no remove on the projection's document, no handle call
Untouched(call, projection) ==
    /\ OpsAt(call.log, PathOf(call, projection), StoreOps) = {}
    /\ OpsAt(call.log, projection.name, {"handle"}) = {}

ReadAndHandled(call, projection) ==
    /\ OpsAt(call.log, PathOf(call, projection), {"once"}) # {}
    /\ OpsAt(call.log, projection.name, {"handle"}) # {}

SharesType(projection, events) ==
    Range(projection.canHandle) \cap {events[i].type : i \in DOMAIN events} # {}

\* the original append of the call rejected
AppendWasRejected(call) == OpsAt(call.log, call.streamName, {"appendRejected"}) # {}

\* The read or the apply step of the call's current projection failed: handle
\* was the last thing called and nothing was written, or the last read attempt
\* is over without a handle call.
ProjectionFailed(call) ==
    /\ call.log # <<>>
    /\ \/ Last(call.log).op = "handle"
       \/ /\ Last(call.log).op \in {"timer", "rejected", "goOnline", "resetFailed"}
          /\ call.pc # "reading"

\* the error of that failure
ThrownBy(call) ==
    IF Last(call.log).op = "handle"
    THEN Handle(Current(call), call.readEvents, Last(call.log).document,
                call.streamName).error
    ELSE ThrowAfterRetries(call.lastError)

----------------------------------------------------------------------------
(* Claims *)

\* C1: in every call a registered projection whose canHandle list shares no
\* event type with the batch gets no read, set, remove or handle call; once
\* the call has resolved, the projections read and handled are exactly those
\* that share a type with the batch.
C1_Filtering ==
    \A c \in Callers : \A i \in DOMAIN Projections :
        LET call == calls[c]
            p == Projections[i]
        IN  /\ ~SharesType(p, call.events) => Untouched(call, p)
            /\ call.pc = "resolved" =>
                   (SharesType(p, call.events) <=> ReadAndHandled(call, p))

C1_Witness ==
    \E c \in Callers : \E i, j \in DOMAIN Projections :
        /\ calls[c].pc = "resolved"
        /\ ~SharesType(Projections[i], calls[c].events)
        /\ Untouched(calls[c], Projections[i])
        /\ ReadAndHandled(calls[c], Projections[j])

\* C2: when the original append rejects, the wrapped call rejects with that
\* same error and no projection is read, set, removed or handled.
C2_AppendFailure ==
    \A c \in Callers :
        LET call == calls[c]
        IN  AppendWasRejected(call) =>
               /\ call.pc = "rejected"
               /\ \A i \in OpsAt(call.log, call.streamName, {"appendRejected"}) :
                      call.outcome = [rejected |-> call.log[i].error]
               /\ \A i \in DOMAIN Projections : Untouched(call, Projections[i])

C2_Witness ==
    \E c \in Callers : \E i \in DOMAIN Projections :
        /\ AppendWasRejected(calls[c])
        /\ calls[c].pc = "rejected"
        /\ SharesType(Projections[i], calls[c].events)

\* C3: when the append succeeded and a projection's read or apply step then
\* fails, the wrapped call rejects with that projection's error, the original
\* append was invoked once and the stream keeps the appended version.
C3_ProjectionFailure ==
    \A c \in Callers :
        LET call == calls[c]
        IN  (call.result # Null /\ ProjectionFailed(call)) =>
               /\ call.pc = "rejected"
               /\ call.outcome = [rejected |-> ThrownBy(call)]
               /\ Cardinality(OpsAt(call.log, call.streamName, {"append"})) = 1
               /\ eventStore[call.streamName] = VersionValue(call.result)

C3_Witness ==
    \E c \in Callers :
        /\ calls[c].result # Null
        /\ ProjectionFailed(calls[c])
        /\ calls[c].pc = "rejected"
        /\ eventStore[calls[c].streamName] = Len(calls[c].events)

\* C4: when the read or apply step of the k-th matching projection fails, each
\* earlier projection has had exactly one set or remove and the store still
\* holds its result, no later projection is read, set, removed or handled,
\* and the call rejects with the k-th projection's error.
C4_FailFast ==
    \A c \in Callers :
        LET call == calls[c]
            k == call.index
        IN  ProjectionFailed(call) =>
               /\ \A j \in 1..(k - 1) :
                      LET path == PathOf(call, call.projections[j])
                          writes == OpsAt(call.log, path, {"set", "remove"})
                      IN  /\ Cardinality(writes) = 1
                          /\ \A i \in writes :
                                 IF call.log[i].op = "set"
                                 THEN DbGet(store, path) = call.log[i].value
                                 ELSE DbGet(store, path) = Null
               /\ \A j \in (k + 1)..Len(call.projections) :
                      Untouched(call, call.projections[j])
               /\ call.pc = "rejected"
               /\ call.outcome = [rejected |-> ThrownBy(call)]

C4_Witness ==
    \E c \in Callers :
        /\ ProjectionFailed(calls[c])
        /\ calls[c].index = 2
        /\ Len(calls[c].projections) = 3
        /\ DbGet(store, PathOf(calls[c], calls[c].projections[1])) # Null
        /\ Untouched(calls[c], calls[c].projections[3])

\* the matching projections of a call whose read has been issued, and those
\* whose set or remove has completed
Begun(call) ==
    {j \in DOMAIN call.projections :
        OpsAt(call.log, PathOf(call, call.projections[j]), {"once"}) # {}}

Completed(call) ==
    {j \in DOMAIN call.projections :
        OpsAt(call.log, PathOf(call, call.projections[j]), {"settled"}) # {}}

\* C5: the matching projections of a call are processed one after the other
\* in registration order: every operation on the document of projection j,
\* its completed set or remove included, comes before the first read of
\* projection j + 1, and at most one projection is under way.
C5_Sequential ==
    \A c \in Callers :
        LET call == calls[c]
        IN  /\ Cardinality(Begun(call) \ Completed(call)) <= 1
            /\ \A j \in Begun(call) : \A h \in 1..(j - 1) :
                   /\ h \in Completed(call)
                   /\ \A a \in OpsAt(call.log, PathOf(call, call.projections[h]),
                                     StoreOps \cup {"settled"}) :
                      \A b \in OpsAt(call.log, PathOf(call, call.projections[j]), StoreOps) :
                          a < b

C5_Witness ==
    \E c \in Callers :
        /\ calls[c].pc = "resolved"
        /\ Len(calls[c].projections) = 3
        /\ Completed(calls[c]) = {1, 2, 3}

C7_Metadata ==
    \A c \in Callers :
        LET call == calls[c]
        IN  \A j \in Completed(call) :
               LET options == call.projections[j].options
                   path == PathOf(call, call.projections[j])
               IN  OpsAt(call.log, path, {"set"}) # {} =>
                      DbGet(store, path)._metadata =
                         [streamId |-> call.streamName,
                          name |-> IF "name" \in DOMAIN options
                                   THEN options.name ELSE "_default",
                          schemaVersion |-> IF "schemaVersion" \in DOMAIN options
                                            THEN options.schemaVersion ELSE 1,
                          streamPosition |->
                             BigIntToString(Last(call.readEvents).metadata.streamPosition)]

C7_Witness ==
    \E c \in Callers :
        /\ calls[c].pc = "resolved"
        /\ calls[c].streamName = "s1"
        /\ Len(calls[c].readEvents) = 2
        /\ OpsAt(calls[c].log, "projections/_default/s1", {"set"}) # {}
        /\ DbGet(store, "projections/_default/s1") # Null
        /\ DbGet(store, "projections/_default/s1")._metadata =
               [streamId |-> "s1", name |-> "_default", schemaVersion |-> 2,
                streamPosition |-> "2"]
        /\ DbGet(store, "projections/test-counter/s1")._metadata =
               [streamId |-> "s1", name |-> "test-counter", schemaVersion |-> 1,
                streamPosition |-> "2"]

\* the stream position a stored document records
PositionOf(document) == BigInt(document._metadata.streamPosition)

\* C8, as stated: whatever calls run and however they overlap, no write
\* replaces a stored document by one with a lower stream position.
C8_NeverBackward ==
    [][\A p \in Paths :
          (DbGet(store, p) # Null /\ DbGet(store', p) # Null) =>
             PositionOf(DbGet(store', p)) >= PositionOf(DbGet(store, p))]_vars

\* C8, amended: a write of a wired append that has overlapped no other wired
\* append to the same stream replaces no stored document by one with a lower
\* stream position.
C8_NotBackwardWithoutOverlap ==
    [][\A c \in Callers :
          (calls[c].pc = "writing" /\ calls'[c].pc # "writing" /\ ~calls[c].overlapped) =>
             \A p \in Paths :
                (DbGet(store, p) # Null /\ DbGet(store', p) # Null) =>
                   PositionOf(DbGet(store', p)) >= PositionOf(DbGet(store, p))]_vars

C8_Witness ==
    \E c \in Callers : \E p \in Paths :
        /\ calls[c].pc = "resolved"
        /\ ~calls[c].overlapped
        /\ OpsAt(calls[c].log, p, {"set"}) # {}
        /\ \E i \in DOMAIN calls[c].log :
               /\ calls[c].log[i].op = "handle"
               /\ calls[c].log[i].document # Null
               /\ PositionOf(calls[c].log[i].document) < PositionOf(DbGet(store, p))
               /\ ProjectionPath(calls[c].log[i].at, calls[c].streamName) = p

\* the projections of a call whose handle has returned and whose set or
\* remove, if it issued one, has completed
Applied(call) == {j \in DOMAIN call.projections : j < call.index}

\* the document handle was called with for the j-th matching projection
DocumentRead(call, j) ==
    call.log[CHOOSE i \in OpsAt(call.log, call.projections[j].name, {"handle"}) : TRUE].document

\* what evolve returned, event by event, for the j-th matching projection
ResultsOf(call, j) ==
    EvolveResults(call.projections[j].options,
                  WorkingState(call.projections[j].options,
                               StripMetadata(DocumentRead(call, j))),
                  call.readEvents)

\* C9, as stated: if evolve returned null for some event of the batch, no
\* document exists at the projection's path once the applier has completed.
C9_NullAnywhereDeletes ==
    \A c \in Callers : \A j \in Applied(calls[c]) :
        (\E i \in DOMAIN ResultsOf(calls[c], j) : ResultsOf(calls[c], j)[i] = Null) =>
           DbGet(store, PathOf(calls[c], calls[c].projections[j])) = Null

\* C9, amended: if evolve returned null for the last event of the batch, no
\* document exists at the projection's path once the applier has completed.
C9_NullAtEndDeletes ==
    \A c \in Callers : \A j \in Applied(calls[c]) :
        Last(ResultsOf(calls[c], j)) = Null =>
           DbGet(store, PathOf(calls[c], calls[c].projections[j])) = Null

C9_Witness ==
    \E c \in Callers : \E j \in Applied(calls[c]) :
        /\ Last(ResultsOf(calls[c], j)) = Null
        /\ DocumentRead(calls[c], j) # Null
        /\ DbGet(store, PathOf(calls[c], calls[c].projections[j])) = Null

\* C10: when the state after the whole fold is null, handle issues one remove
\* on the projection's path and no set, whether or not a document was read.
C10_RemoveOnNull ==
    \A c \in Callers : \A j \in DOMAIN calls[c].projections :
        LET call == calls[c]
            path == PathOf(call, call.projections[j])
        IN  (/\ OpsAt(call.log, call.projections[j].name, {"handle"}) # {}
             /\ Last(ResultsOf(call, j)) = Null) =>
               /\ Cardinality(OpsAt(call.log, path, {"remove"})) = 1
               /\ OpsAt(call.log, path, {"set"}) = {}

\* the cart projection applied to [ItemAdded, OrderCancelled] on a stream
\* without document: a remove, and no document afterwards
C10_Witness ==
    \E c \in Callers : \E j \in Applied(calls[c]) :
        /\ calls[c].projections[j].name = "test-cart"
        /\ Len(calls[c].readEvents) = 2
        /\ calls[c].readEvents[1].type = "ItemAdded"
        /\ calls[c].readEvents[2].type = "OrderCancelled"
        /\ DocumentRead(calls[c], j) = Null
        /\ OpsAt(calls[c].log, PathOf(calls[c], calls[c].projections[j]), {"remove"}) # {}
        /\ DbGet(store, PathOf(calls[c], calls[c].projections[j])) = Null

\* the store operations of a call, on any document
StoreOpsOf(call) == {i \in DOMAIN call.log : call.log[i].op \in StoreOps}

\* the call has been given an empty event array
EmptyBatch(call) == call.pc # "idle" /\ call.events = <<>> /\ call.readEvents = <<>>

\* the call entered through testProjection: its first step is the helper's read
ThroughTestProjection(call) ==
    /\ OpsAt(call.log, call.streamName, {"append"}) = {}
    /\ call.log # <<>>
    /\ call.log[1].op = "once"
    /\ call.readEvents = <<>>

\* C11, as stated: a call given an empty event array issues no read, set or
\* remove on the store, whichever entry point it came through.
C11_EmptyBatchNoStoreAccess ==
    \A c \in Callers : EmptyBatch(calls[c]) => StoreOpsOf(calls[c]) = {}

\* the document was stored for the given projection and stream
OwnDocument(name, streamId, document) ==
    document # Null =>
        /\ document._metadata.name = name
        /\ document._metadata.streamId = streamId

\* C12, as stated: a call that updates projection A for stream S reads and
\* replaces only the document of (A, S): the document handed to handle and the
\* document a set or remove replaces were stored for that projection and that
\* stream, whatever the names and stream ids are.
C12_NoCollision ==
    \A c \in Callers :
        LET call == calls[c]
        IN  /\ \A i \in DOMAIN call.log :
                   call.log[i].op = "handle" =>
                       OwnDocument(call.log[i].at, call.streamName, call.log[i].document)
            /\ call.pc = "writing" =>
                   OwnDocument(Current(call).name, call.streamName,
                               DbGet(store, CurrentPath(call)))

\* the state the claim says the fold starts from: the stored fields when a
\* document exists, else initialState() when the definition has one, else null
StartOfFold(options, document) ==
    IF document # Null
    THEN [k \in DOMAIN document \ {"_metadata"} |-> document[k]]
    ELSE IF "initialState" \in DOMAIN options THEN InitialState(options) ELSE Null

\* the fields of the document a call has set for its j-th matching projection
FieldsSet(call, j) ==
    {StripMetadata(call.log[i].value) :
        i \in OpsAt(call.log, PathOf(call, call.projections[j]), {"set"})}

\* C13: what handle writes is the fold of the batch started from the stored
\* document's fields when a document was read, from initialState() when none
\* was read and the definition has one, and from null otherwise: a non-null
\* result of that fold is the document set, a null result is a remove.
C13_FoldStart ==
    \A c \in Callers : \A j \in DOMAIN calls[c].projections :
        LET call == calls[c]
            options == call.projections[j].options
            path == PathOf(call, call.projections[j])
        IN  OpsAt(call.log, call.projections[j].name, {"handle"}) # {} =>
               LET final == Fold(options, StartOfFold(options, DocumentRead(call, j)),
                                 call.readEvents)
               IN  IF IsThrown(final)
                   THEN OpsAt(call.log, path, {"set", "remove"}) = {}
                   ELSE IF final = Null
                   THEN /\ OpsAt(call.log, path, {"remove"}) # {}
                        /\ FieldsSet(call, j) = {}
                   ELSE FieldsSet(call, j) = {final}

\* a counter document {count: 2}, written from no document by two additions,
\* read by a later call that appends one addition and sets {count: 3}; and the
\* nullable projection, which has no initialState, set in the same call
C13_Witness ==
    \E c \in Callers : \E j, n \in DOMAIN calls[c].projections :
        /\ calls[c].pc = "resolved"
        /\ calls[c].projections[j].name = "test-counter"
        /\ DocumentRead(calls[c], j) # Null
        /\ DocumentRead(calls[c], j).count = 2
        /\ DocumentRead(calls[c], j)._metadata.streamPosition = "2"
        /\ Len(calls[c].readEvents) = 1
        /\ FieldsSet(calls[c], j) = {[count |-> 3]}
        /\ "initialState" \notin DOMAIN calls[c].projections[n].options
        /\ FieldsSet(calls[c], n) = {[value |-> "created"]}

\* C14: nothing stands between overlapping wired appends to one stream: the
\* set a call completes stores the document that call computed from what it
\* read, whatever another call has stored at the path since, and the call goes
\* on without an error.
C14_NoMutualExclusion ==
    [][\A c \in Callers :
          (/\ calls[c].pc = "writing"
           /\ calls'[c].pc # "writing"
           /\ calls[c].pending.op = "set") =>
             /\ DbGet(store', CurrentPath(calls[c])) = calls[c].pending.value
             /\ StripMetadata(calls[c].pending.value) =
                    Fold(Current(calls[c]).options,
                         StartOfFold(Current(calls[c]).options,
                                     DocumentRead(calls[c], calls[c].index)),
                         calls[c].readEvents)
             /\ calls'[c].pc \in {"reading", "resolved"}]_vars

\* Both calls appended one ItemAdded to s1, both read the same counter document
\* (none) before either wrote, both resolved, and the stored counter is the
\* one of the call that wrote last: it counts one of the two appended events.
C14_Witness ==
    \E c, d \in Callers :
        /\ c # d
        /\ calls[c].pc = "resolved" /\ calls[d].pc = "resolved"
        /\ "resolved" \in DOMAIN calls[c].outcome /\ "resolved" \in DOMAIN calls[d].outcome
        /\ calls[c].streamName = "s1" /\ calls[d].streamName = "s1"
        /\ Len(calls[c].readEvents) = 1 /\ Len(calls[d].readEvents) = 1
        /\ calls[c].readEvents[1].type = "ItemAdded"
        /\ calls[d].readEvents[1].type = "ItemAdded"
        /\ eventStore["s1"] = 2
        /\ calls[c].projections[1].name = "test-counter"
        /\ DocumentRead(calls[c], 1) = Null
        /\ DocumentRead(calls[d], 1) = Null
        /\ FieldsSet(calls[c], 1) = {[count |-> 1]}
        /\ FieldsSet(calls[d], 1) = {[count |-> 1]}
        /\ DbGet(store, "projections/test-counter/s1").count = 1

\* the read events of the successful appends to a stream, in the order of the
\* calls (the first caller's call comes before the second caller's)
AppendedTo(s) ==
    (IF calls["c1"].streamName = s /\ calls["c1"].result # Null
     THEN calls["c1"].readEvents ELSE <<>>)
    \o (IF calls["c2"].streamName = s /\ calls["c2"].result # Null
        THEN calls["c2"].readEvents ELSE <<>>)

\* every successful append to the stream held an event type of the projection
EachBatchMatches(projection, s) ==
    \A c \in Callers :
        (calls[c].streamName = s /\ calls[c].result # Null) =>
            SharesType(projection, calls[c].events)

\* C15: once the non-overlapping wired appends B1..Bn to a stream have
\* resolved, each holding an event type of the counter (a definition with
\* initialState whose evolve never returns null), the stored counter without
\* its _metadata is the left fold of evolve over B1 ++ ... ++ Bn from
\* initialState() and its streamPosition is that of the last event of Bn.
C15_ReflectedOnce ==
    \A s \in Streams :
        LET path == ProjectionPath(counterProjection.name, s)
            all == AppendedTo(s)
        IN  (/\ \A c \in Callers : Settled(calls[c])
             /\ \A c \in Callers : calls[c].streamName = s => calls[c].pc = "resolved"
             /\ EachBatchMatches(counterProjection, s)
             /\ all # <<>>) =>
               /\ DbGet(store, path) # Null
               /\ StripMetadata(DbGet(store, path)) =
                      Fold(counterOptions, InitialState(counterOptions), all)
               /\ DbGet(store, path)._metadata.streamPosition =
                      BigIntToString(Last(all).metadata.streamPosition)
               /\ Last(all).metadata.streamPosition = eventStore[s]

\* two appends of two events each to s1, the second one holding an event the
\* counter does not handle: the counter is the fold of all four events
C15_Witness ==
    /\ calls["c1"].pc = "resolved" /\ calls["c2"].pc = "resolved"
    /\ calls["c1"].streamName = "s1" /\ calls["c2"].streamName = "s1"
    /\ Len(calls["c1"].readEvents) = 2 /\ Len(calls["c2"].readEvents) = 2
    /\ calls["c1"].readEvents[1].type = "ItemAdded"
    /\ calls["c1"].readEvents[2].type = "ItemAdded"
    /\ calls["c2"].readEvents[1].type = "ItemAdded"
    /\ calls["c2"].readEvents[2].type = "OrderCancelled"
    /\ StripMetadata(DbGet(store, "projections/test-counter/s1")) = [count |-> 3]
    /\ DbGet(store, "projections/test-counter/s1")._metadata.streamPosition = "4"

\* the document read records a position at or past every event of the batch
AlreadyApplied(document, events) ==
    /\ document # Null
    /\ events # <<>>
    /\ \A i \in DOMAIN events :
           events[i].metadata.streamPosition <= PositionOf(document)

\* C16: events whose positions the stored document already records are folded
\* again: when the document read for a projection records a position at or
\* past every event of the batch, handle still calls evolve for each event
\* from the stored fields and writes the result; no event is skipped.
C16_NotIdempotent ==
    \A c \in Callers : \A j \in DOMAIN calls[c].projections :
        LET call == calls[c]
            options == call.projections[j].options
            path == PathOf(call, call.projections[j])
        IN  (/\ OpsAt(call.log, call.projections[j].name, {"handle"}) # {}
             /\ AlreadyApplied(DocumentRead(call, j), call.readEvents)) =>
               LET final == Fold(options, StripMetadata(DocumentRead(call, j)),
                                 call.readEvents)
               IN  /\ Len(ResultsOf(call, j)) = Len(call.readEvents) \/ IsThrown(final)
                   /\ IF IsThrown(final)
                      THEN OpsAt(call.log, path, {"set", "remove"}) = {}
                      ELSE IF final = Null
                      THEN OpsAt(call.log, path, {"remove"}) # {}
                      ELSE FieldsSet(call, j) = {final}

\* the counter stored as {count: 1} at position "1" and the event at position
\* 1 dispatched again: the counter is set to {count: 2}, still at position "1"
C16_Witness ==
    \E c \in Callers : \E j \in DOMAIN calls[c].projections :
        /\ calls[c].pc = "resolved"
        /\ calls[c].projections[j].name = "test-counter"
        /\ Len(calls[c].readEvents) = 1
        /\ calls[c].readEvents[1].type = "ItemAdded"
        /\ calls[c].readEvents[1].metadata.streamPosition = 1
        /\ DocumentRead(calls[c], j) # Null
        /\ DocumentRead(calls[c], j).count = 1
        /\ DocumentRead(calls[c], j)._metadata.streamPosition = "1"
        /\ FieldsSet(calls[c], j) = {[count |-> 2]}
        /\ DbGet(store, "projections/test-counter/s1")._metadata.streamPosition = "1"

\* the read attempts a call has issued on a path, and those that failed
Attempts(call, path) == OpsAt(call.log, path, {"once"})

FailedAttempts(call, path) == OpsAt(call.log, path, {"timer", "rejected"})

\* where in the log handle was called for the j-th matching projection
HandledAt(call, j) ==
    CHOOSE i \in OpsAt(call.log, call.projections[j].name, {"handle"}) : TRUE

\* the read of the call's current projection is over without a snapshot
ReadGaveUp(call) ==
    /\ call.pc = "rejected"
    /\ call.log # <<>>
    /\ Last(call.log).op \in {"timer", "rejected", "goOnline"}

\* C17: the read of one projection document issues at most 3 fetches; the
\* attempt that answers in time is the last one issued (handle is called right
\* after it, every attempt before it failed), and the read gives up only when
\* 3 attempts have failed.
C17_AtMostThreeAttempts ==
    \A c \in Callers : \A j \in DOMAIN calls[c].projections :
        LET call == calls[c]
            path == PathOf(call, call.projections[j])
        IN  /\ Cardinality(Attempts(call, path)) <= 3
            /\ OpsAt(call.log, call.projections[j].name, {"handle"}) # {} =>
                   /\ call.log[HandledAt(call, j) - 1] = [op |-> "once", at |-> path]
                   /\ \A a \in Attempts(call, path) : a < HandledAt(call, j)
                   /\ Cardinality(FailedAttempts(call, path)) =
                          Cardinality(Attempts(call, path)) - 1
            /\ (ReadGaveUp(call) /\ j = call.index) =>
                   /\ Cardinality(Attempts(call, path)) = 3
                   /\ Cardinality(FailedAttempts(call, path)) = 3

\* the first projection was read at the second attempt, the read of the second
\* one gave up after three failed attempts
C17_Witness ==
    \E c \in Callers :
        /\ ReadGaveUp(calls[c])
        /\ calls[c].index = 2
        /\ Cardinality(Attempts(calls[c], PathOf(calls[c], calls[c].projections[1]))) = 2
        /\ OpsAt(calls[c].log, calls[c].projections[1].name, {"handle"}) # {}
        /\ Cardinality(Attempts(calls[c], PathOf(calls[c], calls[c].projections[2]))) = 3
        /\ OpsAt(calls[c].log, calls[c].projections[2].name, {"handle"}) = {}

\* the log entries of the read of the j-th matching projection, from its first
\* attempt to the call of handle
ReadSpan(call, j) ==
    {i \in DOMAIN call.log :
        /\ i < HandledAt(call, j)
        /\ \E a \in Attempts(call, PathOf(call, call.projections[j])) : a <= i}

\* C18: when every failed attempt of a read was a fired timer and attempt k
\* answers, the connection was reset exactly k - 1 times: each fired timer is
\* followed by goOffline, then goOnline, then the next attempt, and handle gets
\* the snapshot of attempt k.
C18_ResetPerTimeout ==
    \A c \in Callers : \A j \in DOMAIN calls[c].projections :
        LET call == calls[c]
            path == PathOf(call, call.projections[j])
            k == Cardinality(Attempts(call, path))
        IN  (/\ OpsAt(call.log, call.projections[j].name, {"handle"}) # {}
             /\ OpsAt(call.log, path, {"rejected"}) = {}) =>
               /\ Cardinality(OpsAt(call.log, path, {"timer"})) = k - 1
               /\ Cardinality({i \in ReadSpan(call, j) : call.log[i].op = "goOffline"}) = k - 1
               /\ Cardinality({i \in ReadSpan(call, j) : call.log[i].op = "goOnline"}) = k - 1
               /\ \A t \in OpsAt(call.log, path, {"timer"}) :
                      /\ call.log[t - 1] = [op |-> "once", at |-> path]
                      /\ call.log[t + 1].op = "goOffline"
                      /\ call.log[t + 2].op = "goOnline"
                      /\ call.log[t + 3] = [op |-> "once", at |-> path]
               /\ call.log[HandledAt(call, j)].document = Null

\* two fired timers, then the third attempt answers: two resets
C18_Witness ==
    \E c \in Callers : \E j \in DOMAIN calls[c].projections :
        LET call == calls[c]
            path == PathOf(call, call.projections[j])
        IN  /\ call.pc = "resolved"
            /\ OpsAt(call.log, call.projections[j].name, {"handle"}) # {}
            /\ Cardinality(Attempts(call, path)) = 3
            /\ Cardinality(OpsAt(call.log, path, {"timer"})) = 2
            /\ Cardinality({i \in ReadSpan(call, j) : call.log[i].op = "goOffline"}) = 2
            /\ Cardinality({i \in ReadSpan(call, j) : call.log[i].op = "goOnline"}) = 2

\* C19: a read attempt rejected with an error that is not the timeout error is
\* followed by no goOffline and no goOnline: the next thing the reader does is
\* the next attempt on the same path, or, after the third attempt, it gives up
\* with that error.
C19_NoResetOnOtherErrors ==
    \A c \in Callers : \A r \in DOMAIN calls[c].log :
        LET call == calls[c]
        IN  (/\ call.log[r].op = "rejected"
             /\ call.log[r].error.error # "Realtime DB read timed out.") =>
               IF r < Len(call.log)
               THEN /\ call.log[r + 1] = [op |-> "once", at |-> call.log[r].at]
                    /\ Cardinality({a \in Attempts(call, call.log[r].at) : a < r}) < 3
               ELSE /\ call.pc = "rejected"
                    /\ call.outcome = [rejected |-> call.log[r].error]
                    /\ Cardinality(Attempts(call, call.log[r].at)) = 3

\* a read rejected with permission_denied twice and answered at the third
\* attempt, without any reset in the call
C19_Witness ==
    \E c \in Callers : \E j \in DOMAIN calls[c].projections :
        LET call == calls[c]
            path == PathOf(call, call.projections[j])
        IN  /\ call.pc = "resolved"
            /\ Cardinality(OpsAt(call.log, path, {"rejected"})) = 2
            /\ \A r \in OpsAt(call.log, path, {"rejected"}) :
                   call.log[r].error = Error("permission_denied")
            /\ OpsAt(call.log, call.projections[j].name, {"handle"}) # {}
            /\ \A i \in DOMAIN call.log : call.log[i].op \notin {"goOffline", "goOnline"}

\* C20: the reader resets the connection after a failed attempt if and only
\* if the timer of that attempt fired, whatever the underlying read rejected
\* with.
C20_TimedOutIffTimerFired ==
    \A c \in Callers : \A i \in DOMAIN calls[c].log :
        LET call == calls[c]
        IN  call.log[i].op \in {"timer", "rejected"} =>
                ((/\ i + 2 <= Len(call.log)
                  /\ call.log[i + 1].op = "goOffline"
                  /\ call.log[i + 2].op = "goOnline")
                 <=> call.log[i].op = "timer")

\* C21: an error thrown by goOffline or goOnline during the connection reset
\* stays inside the reset: the call is never rejected with it, the error the
\* reader remembers is still that of the timed-out attempt, and the next read
\* attempt on the same path follows directly while attempts remain; after the
\* third attempt the reader gives up with the timeout error.
C21_ResetFailureSwallowed ==
    \A c \in Callers : \A i \in DOMAIN calls[c].log :
        LET call == calls[c]
            timer == CHOOSE t \in DOMAIN call.log :
                         /\ t < i
                         /\ call.log[t].op = "timer"
                         /\ \A u \in (t + 1)..(i - 1) : call.log[u].op \in {"goOffline", "goOnline"}
        IN  call.log[i].op = "resetFailed" =>
               /\ \E t \in 1..(i - 1) : call.log[t].op = "timer"
               /\ call.pc = "rejected" => call.outcome # [rejected |-> call.log[i].error]
               /\ IF i < Len(call.log)
                  THEN call.log[i + 1] = [op |-> "once", at |-> call.log[timer].at]
                  ELSE /\ call.pc = "rejected"
                       /\ call.outcome = [rejected |-> Error(TIMEOUT_ERROR_MESSAGE)]
                       /\ Cardinality(Attempts(call, call.log[timer].at)) = 3

\* goOffline threw after the first timeout and goOnline after the second, the
\* third attempt answered and the call resolved
C21_Witness ==
    \E c \in Callers :
        LET call == calls[c]
        IN  /\ call.pc = "resolved"
            /\ \E i, j \in DOMAIN call.log :
                   /\ i < j
                   /\ call.log[i] = [op |-> "resetFailed", at |-> "",
                                     error |-> Error("goOffline failed")]
                   /\ call.log[i - 1].op = "goOffline"
                   /\ call.log[j] = [op |-> "resetFailed", at |-> "",
                                     error |-> Error("goOnline failed")]
                   /\ call.log[j + 1].op = "once"
                   /\ call.log[j + 2].op = "handle"

\* what the attempt ended by the log entry at i failed with
AttemptError(call, i) ==
    IF call.log[i].op = "timer" THEN Error(TIMEOUT_ERROR_MESSAGE) ELSE call.log[i].error

\* the last failed attempt on a path
LastFailure(call, path) ==
    CHOOSE i \in FailedAttempts(call, path) : \A k \in FailedAttempts(call, path) : k <= i

\* C22: when the three read attempts of a projection have failed, the wired
\* append is rejected with what the last attempt failed with if that is an
\* Error, and with the error 'Realtime DB read failed after retries.' if it
\* is not; this projection and every later one of the batch get no set and no
\* remove, the later ones no read either, and their documents stay as they
\* were.
C22_GiveUpWithLastError ==
    \A c \in Callers : \A j \in DOMAIN calls[c].projections :
        LET call == calls[c]
            path == PathOf(call, call.projections[j])
            last == AttemptError(call, LastFailure(call, path))
        IN  Cardinality(FailedAttempts(call, path)) = 3 =>
               /\ call.pc = "rejected"
               /\ call.index = j
               /\ call.outcome =
                      [rejected |-> IF "error" \in DOMAIN last THEN last
                                    ELSE Error("Realtime DB read failed after retries.")]
               /\ OpsAt(call.log, call.projections[j].name, {"handle"}) = {}
               /\ \A k \in j..Len(call.projections) :
                      /\ OpsAt(call.log, PathOf(call, call.projections[k]), {"set", "remove"}) = {}
                      /\ store[PathOf(call, call.projections[k])] = Null
                      /\ k > j => Untouched(call, call.projections[k])

\* the counter was written, then the three reads of the cart failed, first by
\* a timeout and last with permission_denied: the call is rejected with
\* permission_denied and the third projection is untouched
C22_Witness ==
    \E c \in Callers :
        LET call == calls[c]
            path == PathOf(call, cartProjection)
        IN  /\ call.pc = "rejected"
            /\ Len(call.projections) = 3
            /\ call.index = 2
            /\ store[PathOf(call, counterProjection)] # Null
            /\ Cardinality(OpsAt(call.log, path, {"timer"})) = 1
            /\ Cardinality(OpsAt(call.log, path, {"rejected"})) = 2
            /\ call.log[LastFailure(call, path) - 6].op = "timer"
            /\ Last(call.log).error = Error("permission_denied")
            /\ call.outcome = [rejected |-> Error("permission_denied")]
            /\ Untouched(call, nullableProjection)

\* C23: every read of a projection document ends, by a snapshot or by an
\* error, even if the underlying read never settles, and so every wired
\* append that was entered settles, given that the original append and the
\* store's set and remove terminate; a call waiting for a set or a remove
\* leaves that wait only when the store settles the write.
C23_ReadsCannotHang ==
    /\ \A c \in Callers : \A j \in DOMAIN Projections :
           (calls[c].pc = "reading" /\ calls[c].index = j)
               ~> ~(calls[c].pc = "reading" /\ calls[c].index = j)
    /\ \A c \in Callers : Active(calls[c]) ~> Settled(calls[c])
    /\ [][\A c \in Callers :
              (calls[c].pc = "writing" /\ calls'[c] # calls[c]) =>
                  calls'[c].log[Len(calls[c].log) + 1] =
                      [op |-> "settled", at |-> CurrentPath(calls[c])]]_vars

\* no read of the cart ever settled: three timers fired and the call was
\* rejected with the timeout error
C23_Witness ==
    \E c \in Callers :
        LET call == calls[c]
            path == PathOf(call, cartProjection)
        IN  /\ call.pc = "rejected"
            /\ Cardinality(Attempts(call, path)) = 3
            /\ Cardinality(OpsAt(call.log, path, {"timer"})) = 3
            /\ call.outcome = [rejected |-> Error(TIMEOUT_ERROR_MESSAGE)]

\* C24: the version after the append is the result's nextExpectedStreamVersion
\* whenever the result has that field, 0 included, and its streamVersion only
\* when it has not: the i-th of the n read events is at position
\* version - n + i, whatever the other field holds.
C24_NewerFieldPreferred ==
    \A c \in Callers : \A a \in OpsAt(calls[c].log, calls[c].streamName, {"appended"}) :
        LET call == calls[c]
            result == call.log[a].result
            version == IF "nextExpectedStreamVersion" \in DOMAIN result
                       THEN result.nextExpectedStreamVersion
                       ELSE result.streamVersion
            n == Len(call.events)
        IN  /\ Len(call.readEvents) = n
            /\ \A i \in 1..n :
                   call.readEvents[i].metadata.streamPosition = version - n + i

\* both fields present, the newer one 0 and the older one 2: the event is at
\* position 0 and the counter document records "0"
C24_Witness ==
    \E c \in Callers :
        LET call == calls[c]
        IN  /\ call.pc = "resolved"
            /\ call.result = [nextExpectedStreamVersion |-> 0, streamVersion |-> 2,
                              createdNewStream |-> FALSE]
            /\ Len(call.readEvents) = 1
            /\ call.readEvents[1].metadata.streamPosition = 0
            /\ store[PathOf(call, counterProjection)] # Null
            /\ store[PathOf(call, counterProjection)]._metadata.streamPosition = "0"

\* the entries of a log with the given operation
OpsNamed(log, op) == {i \in DOMAIN log : log[i].op = op}

\* C25: the original append is called exactly once per wired call, first of
\* all and before any read, handle, set or remove, with the stream name, the
\* events and the options the caller passed; a call that resolves resolves
\* with the result the original append returned, every field as returned.
C25_ResultAndArgumentsPreserved ==
    \A c \in Callers :
        LET call == calls[c]
        IN  call.log # <<>> =>
               /\ OpsNamed(call.log, "called") = {1}
               /\ OpsNamed(call.log, "append") = {2}
               /\ call.log[2] = [op |-> "append", at |-> call.log[1].at,
                                 events |-> call.log[1].events,
                                 options |-> call.log[1].options]
               /\ \A i \in DOMAIN call.log :
                      call.log[i].op \in StoreOps \cup {"handle"} =>
                          /\ i > 3
                          /\ call.log[3].op = "appended"
               /\ call.pc = "resolved" =>
                      /\ OpsNamed(call.log, "appended") = {3}
                      /\ call.outcome = [resolved |-> call.log[3].result]

\* a call with options that resolved with a result of three fields after
\* the counter was set
C25_Witness ==
    \E c \in Callers :
        LET call == calls[c]
        IN  /\ call.pc = "resolved"
            /\ call.log[1].options = [expectedStreamVersion |-> 5]
            /\ call.log[2].options = [expectedStreamVersion |-> 5]
            /\ call.outcome = [resolved |-> [nextExpectedStreamVersion |-> 3,
                                             streamVersion |-> 1,
                                             createdNewStream |-> FALSE]]
            /\ OpsAt(call.log, PathOf(call, counterProjection), {"set"}) # {}

\* the call without what its logger was told
WithoutLogger(call) == [call EXCEPT !.logger = Null, !.logged = <<>>]

AppendedAndSettled(call) ==
    /\ call.pc \in {"resolved", "rejected"}
    /\ ~AppendWasRejected(call)
    /\ eventStore[call.streamName] >= Len(call.events)

\* the set or remove of the projection's document by this call has settled
Updated(call, projection) ==
    OpsAt(call.log, PathOf(call, projection), {"settled"}) # {}

C28_PositionRoundTrip ==
    LET writer == calls["c1"]
        reader == calls["c2"]
        path == reader.log[1].at
        state == reader.outcome.resolved
    IN  reader.pc = "resolved" =>
           /\ store[path] = Null => state = Null
           /\ store[path] # Null =>
                  /\ OpsAt(writer.log, path, {"settled"}) # {}
                  /\ state._metadata.streamPosition =
                         Last(writer.readEvents).metadata.streamPosition
                  /\ StripMetadata(state) = StripMetadata(store[path])
                  /\ [k \in {"streamId", "name", "schemaVersion"} |-> state._metadata[k]]
                         = [k \in {"streamId", "name", "schemaVersion"} |->
                                store[path]._metadata[k]]

\* the counter was set from two events at 99 and 100 and its state comes back
\* with position 100
C28_Witness ==
    /\ calls["c2"].pc = "resolved"
    /\ calls["c2"].log[1].at = ProjectionPath("test-counter", "s1")
    /\ store[ProjectionPath("test-counter", "s1")] # Null
    /\ store[ProjectionPath("test-counter", "s1")]._metadata.streamPosition = "100"
    /\ calls["c2"].outcome.resolved._metadata.streamPosition = 100
    /\ calls["c2"].outcome.resolved.count = 2

\* the call removed the document at the path and the remove has settled
Deleted(call, path) ==
    \E i \in OpsAt(call.log, path, {"remove"}) :
        i < Len(call.log) /\ call.log[i + 1] = [op |-> "settled", at |-> path]

\* what a batch folds to when nothing is stored
FoldFromScratch(definition, events) ==
    Fold(definition.options, WorkingState(definition.options, Null), events)

\* C29: once a call has deleted the document of a (projection, stream), the
\* next batch handled for it is given no document, what it sets is the fold of
\* the batch from initialState() (from null without one), and a document is
\* stored at the path again only when the later call has set it, that fold
\* being non-null; when the later call has handled the projection and written,
\* the document exists exactly if the fold ended with a state.
C29_DeletedContentNeverUsed ==
    \A j \in DOMAIN calls["c2"].projections :
        LET earlier == calls["c1"]
            later == calls["c2"]
            definition == later.projections[j]
            path == PathOf(later, definition)
            fold == FoldFromScratch(definition, later.readEvents)
            rewritten == \E i \in OpsAt(later.log, path, {"set", "remove"}) :
                             i < Len(later.log) /\ later.log[i + 1].op = "settled"
        IN  Deleted(earlier, path) =>
               /\ \A i \in OpsAt(later.log, definition.name, {"handle"}) :
                      later.log[i].document = Null
               /\ \A i \in OpsAt(later.log, path, {"set"}) :
                      /\ fold # Null /\ ~IsThrown(fold)
                      /\ later.log[i].value =
                             WithMetadata(fold, Metadata(definition, "s1", later.readEvents))
               /\ store[path] # Null =>
                      /\ rewritten
                      /\ StripMetadata(store[path]) = fold
               /\ rewritten => (store[path] # Null <=> fold # Null)

\* a stored cart with an item was cancelled and deleted by the first call; the
\* second call added an item and the cart exists again with that item alone
C29_Witness ==
    LET path == ProjectionPath("test-cart", "s1")
    IN  /\ Deleted(calls["c1"], path)
        /\ \E i \in OpsAt(calls["c1"].log, "test-cart", {"handle"}) :
               /\ calls["c1"].log[i].document # Null
               /\ calls["c1"].log[i].document.totalQuantity = 2
        /\ calls["c2"].pc = "resolved"
        /\ store[path] # Null
        /\ store[path].totalQuantity = 1

\* C30: when handle is given a stored document, evolve never sees the
\* envelope: no state passed to evolve during the fold of the batch has a
\* _metadata field, and the first call gets the stored document's other
\* fields, each with the value stored.
C30_MetadataStripped ==
    \A c \in Callers : \A i \in DOMAIN calls[c].log :
        LET call == calls[c]
            entry == call.log[i]
        IN  (entry.op = "handle" /\ entry.document # Null) =>
               LET definition == CHOOSE d \in Range(call.projections) : d.name = entry.at
                   inputs == HandleInputs(definition, call.readEvents, entry.document)
               IN  /\ inputs # <<>>
                   /\ \A k \in DOMAIN inputs : "_metadata" \notin DOMAIN inputs[k]
                   /\ inputs[1] = [f \in DOMAIN entry.document \ {"_metadata"} |->
                                       entry.document[f]]

\* the counter stored with count 2 and its envelope is handed to handle with
\* one more ItemAdded: the document set has count 3
C30_Witness ==
    \E i \in OpsAt(calls["c1"].log, "test-counter", {"handle"}) :
        /\ calls["c1"].log[i].document # Null
        /\ "_metadata" \in DOMAIN calls["c1"].log[i].document
        /\ calls["c1"].log[i].document.count = 2
        /\ \E k \in OpsAt(calls["c1"].log, ProjectionPath("test-counter", "s1"), {"set"}) :
               calls["c1"].log[k].value.count = 3

\* the document handle was given for the call's current projection
DocumentGiven(call) ==
    call.log[CHOOSE i \in OpsAt(call.log, Current(call).name, {"handle"}) : TRUE].document

\* the state the fold of the call's batch ends with for its current projection
FinalState(call) ==
    LET document == DocumentGiven(call)
        rest == IF document = Null THEN Null
                ELSE [f \in DOMAIN document \ {"_metadata"} |-> document[f]]
    IN  Fold(Current(call).options, WorkingState(Current(call).options, rest),
             call.readEvents)

\* C31: a set replaces the stored document in full: in the step in which the
\* set of a call reaches the store, the document at the path becomes exactly
\* the fields of the final evolved state, with their values, plus _metadata,
\* and no field of the document stored before that the final state does not
\* carry is stored any longer.
C31_SetReplacesDocument ==
    [][\A c \in Callers :
          (calls[c].pc = "writing" /\ calls[c].pending.op = "set"
               /\ calls'[c] # calls[c]) =>
              LET path == CurrentPath(calls[c])
                  final == FinalState(calls[c])
                  before == store[path]
                  after == store'[path]
              IN  /\ DOMAIN after = DOMAIN final \cup {"_metadata"}
                  /\ \A f \in DOMAIN final : after[f] = final[f]
                  /\ after._metadata =
                         Metadata(Current(calls[c]), calls[c].streamName, calls[c].readEvents)
                  /\ before # Null =>
                         \A f \in DOMAIN before \ (DOMAIN final \cup {"_metadata"}) :
                             f \notin DOMAIN after]_vars

\* the stored counter carried a label; one ItemAdded later the document is the
\* new count and the envelope, the label is gone
C31_Witness ==
    LET path == ProjectionPath("test-counter", "s1")
    IN  /\ calls["c1"].pc = "resolved"
        /\ calls["c2"].pc = "idle"
        /\ \E i \in OpsAt(calls["c1"].log, "test-counter", {"handle"}) :
               "label" \in DOMAIN calls["c1"].log[i].document
        /\ Len(calls["c1"].readEvents) = 1
        /\ store[path] # Null
        /\ DOMAIN store[path] = {"count", "_metadata"}
        /\ store[path].count = 6

\* evolve(...evolve(evolve(s0, e1), e2)..., en), written from the last event in
RECURSIVE EvolvedInOrder(_, _, _)
EvolvedInOrder(options, s0, events) ==
    IF events = <<>> THEN s0
    ELSE LET inner == EvolvedInOrder(options, s0, SubSeq(events, 1, Len(events) - 1))
         IN  IF IsThrown(inner) THEN inner
             ELSE Evolve(options, inner, events[Len(events)])

\* the types and data of a batch, without the metadata of the stream
Payloads(events) == [i \in DOMAIN events |-> [type |-> events[i].type, data |-> events[i].data]]

Reversed(s) == [i \in DOMAIN s |-> s[Len(s) + 1 - i]]

\* the fields stored at a path, or null
FieldsAt(path) ==
    IF store[path] = Null THEN Null
    ELSE [f \in DOMAIN store[path] \ {"_metadata"} |-> store[path][f]]

\* C32: the batch is folded one event at a time in the order of the array:
\* what a call sets for a projection is evolve(...evolve(evolve(s0, e1), e2)...,
\* en) for the batch [e1, ..., en] and the state s0 the fold starts from; and
\* when two streams were given the same two events in opposite orders and the
\* projection's evolve does not commute on them, the two documents differ.
C32_FoldedInOrder ==
    /\ \A c \in Callers : \A j \in DOMAIN calls[c].projections :
           LET call == calls[c]
               options == call.projections[j].options
           IN  \A i \in OpsAt(call.log, PathOf(call, call.projections[j]), {"set"}) :
                   [f \in DOMAIN call.log[i].value \ {"_metadata"} |-> call.log[i].value[f]]
                       = EvolvedInOrder(options, StartOfFold(options, DocumentRead(call, j)),
                                        call.readEvents)
    /\ (/\ calls["c1"].pc = "resolved" /\ calls["c2"].pc = "resolved"
        /\ Len(calls["c1"].readEvents) = 2
        /\ Payloads(calls["c2"].readEvents) = Reversed(Payloads(calls["c1"].readEvents))) =>
           \A k \in DOMAIN Projections :
               LET options == Projections[k].options
                   s0 == StartOfFold(options, Null)
                   e == calls["c1"].readEvents
                   oneWay == EvolvedInOrder(options, s0, <<e[1], e[2]>>)
                   otherWay == EvolvedInOrder(options, s0, <<e[2], e[1]>>)
               IN  (/\ Projections[k] \in Range(calls["c1"].projections)
                    /\ oneWay # otherWay) =>
                       FieldsAt(ProjectionPath(Projections[k].name, "s1"))
                           # FieldsAt(ProjectionPath(Projections[k].name, "s2"))

\* the cart of "s1" was given an addition and then the removal and is empty;
\* the cart of "s2" was given the removal first and holds the item
C32_Witness ==
    /\ calls["c1"].pc = "resolved" /\ calls["c2"].pc = "resolved"
    /\ Len(calls["c1"].readEvents) = 2
    /\ calls["c1"].readEvents[1].type = "ItemAdded"
    /\ calls["c1"].readEvents[2].type = "ItemRemoved"
    /\ Payloads(calls["c2"].readEvents) = Reversed(Payloads(calls["c1"].readEvents))
    /\ store[ProjectionPath("test-cart", "s1")] # Null
    /\ store[ProjectionPath("test-cart", "s2")] # Null
    /\ store[ProjectionPath("test-cart", "s1")].totalQuantity = 0
    /\ store[ProjectionPath("test-cart", "s2")].totalQuantity = 1

\* the events on which evolve throws when the batch is applied in order from
\* s0: the first one, if any
ThrowingEvents(options, s0, events) ==
    {i \in DOMAIN events :
        /\ IsThrown(EvolvedInOrder(options, s0, SubSeq(events, 1, i)))
        /\ ~IsThrown(EvolvedInOrder(options, s0, SubSeq(events, 1, i - 1)))}

\* C33: when evolve throws on event i of the batch, the fold stops there
\* (evolve has been called i times, not for the events after i), nothing is
\* written for the projection, and the call rejects with the very value evolve
\* threw, whether it entered through the definition's handle, through
\* handleInlineProjections or through the wired appendToStream.
C33_EvolveErrorPropagates ==
    \A j \in DOMAIN calls["c1"].projections :
        LET call == calls["c1"]
            options == call.projections[j].options
            path == PathOf(call, call.projections[j])
        IN  OpsAt(call.log, call.projections[j].name, {"handle"}) # {} =>
               LET s0 == StartOfFold(options, DocumentRead(call, j))
               IN  \A i \in ThrowingEvents(options, s0, call.readEvents) :
                       /\ call.pc = "rejected"
                       /\ call.outcome =
                              [rejected |->
                                  EvolvedInOrder(options, s0,
                                                 SubSeq(call.readEvents, 1, i)).thrown]
                       /\ Len(ResultsOf(call, j)) = i
                       /\ OpsAt(call.log, path, {"set", "remove"}) = {}

\* the wired append of a cancellation followed by two additions: the cart's
\* evolve throws on the second event, one event is left, and the append
\* rejects with that TypeError
C33_Witness ==
    /\ calls["c1"].result # Null
    /\ Len(calls["c1"].readEvents) = 3
    /\ calls["c1"].readEvents[1].type = "OrderCancelled"
    /\ calls["c1"].readEvents[2].type = "ItemAdded"
    /\ calls["c1"].pc = "rejected"
    /\ calls["c1"].outcome = [rejected |-> TypeErrorOfNull]
    /\ OpsAt(calls["c1"].log, "test-cart", {"handle"}) # {}

\* the events, not the last, after which the state is null when the batch is
\* applied in order from s0
NullAfter(options, s0, events) ==
    {k \in 1..(Len(events) - 1) : EvolvedInOrder(options, s0, SubSeq(events, 1, k)) = Null}

\* C34: evolve is called for every event whatever the state: when evolve has
\* returned null for event k, the events after k are evolved from null, with
\* or without initialState in the definition: what the call does for the
\* projection is what the rest of the batch gives from null (it sets that
\* state, removes the document when it is null, or rejects with what evolve
\* throws on null), and evolve has been called for every event up to a throw.
C34_EvolvedFromNull ==
    \A j \in DOMAIN calls["c1"].projections :
        LET call == calls["c1"]
            options == call.projections[j].options
            path == PathOf(call, call.projections[j])
            events == call.readEvents
        IN  OpsAt(call.log, call.projections[j].name, {"handle"}) # {} =>
               LET s0 == StartOfFold(options, DocumentRead(call, j))
                   results == ResultsOf(call, j)
               IN  /\ Len(results) = Len(events) \/ IsThrown(Last(results))
                   /\ \A k \in NullAfter(options, s0, events) :
                          LET rest == EvolvedInOrder(options, Null,
                                                     SubSeq(events, k + 1, Len(events)))
                          IN  IF IsThrown(rest)
                              THEN /\ call.outcome = [rejected |-> rest.thrown]
                                   /\ OpsAt(call.log, path, {"set", "remove"}) = {}
                              ELSE IF rest = Null
                              THEN /\ OpsAt(call.log, path, {"remove"}) # {}
                                   /\ OpsAt(call.log, path, {"set"}) = {}
                              ELSE FieldsSet(call, j) = {rest}

\* the cart, which has an initialState, is given an addition, a cancellation
\* and an addition: the third event is evolved from null and evolve throws;
\* the nullable projection of the same dispatch is never reached
C34_Witness ==
    /\ Len(calls["c1"].readEvents) = 3
    /\ calls["c1"].readEvents[1].type = "ItemAdded"
    /\ calls["c1"].readEvents[2].type = "OrderCancelled"
    /\ calls["c1"].readEvents[3].type = "ItemAdded"
    /\ OpsAt(calls["c1"].log, "test-cart", {"handle"}) # {}
    /\ calls["c1"].pc = "rejected"
    /\ calls["c1"].outcome = [rejected |-> TypeErrorOfNull]
    /\ store[ProjectionPath("test-cart", "s1")] = Null
    /\ store[ProjectionPath("test-counter", "s1")] # Null

\* the events of a batch whose type is not in the projection's canHandle list
Foreign(projection, events) ==
    {i \in DOMAIN events : events[i].type \notin Range(projection.canHandle)}

\* C35: the dispatcher filters projections, not events: a projection that
\* matches the batch through one event type is handed the whole batch, its
\* evolve is called once for every event, those of other types included, what
\* it sets is the whole batch applied in order, and the streamPosition stored
\* is that of the last event of the batch, whatever that event's type.
C35_WholeBatch ==
    \A c \in Callers : \A j \in DOMAIN calls[c].projections :
        LET call == calls[c]
            projection == call.projections[j]
            options == projection.options
            events == call.readEvents
            path == PathOf(call, projection)
        IN  /\ Foreign(projection, events) # DOMAIN events
            /\ OpsAt(call.log, projection.name, {"handle"}) # {} =>
                   LET results == ResultsOf(call, j)
                       s0 == StartOfFold(options, DocumentRead(call, j))
                   IN  /\ Len(results) = Len(events) \/ IsThrown(Last(results))
                       /\ \A i \in OpsAt(call.log, path, {"set"}) :
                              /\ call.log[i].value._metadata.streamPosition =
                                     BigIntToString(events[Len(events)].metadata.streamPosition)
                              /\ FieldsSet(call, j) = {EvolvedInOrder(options, s0, events)}

\* an addition followed by a cancellation: the counter, which does not list
\* cancellations, is set with count 1 and the position of the cancellation
C35_Witness ==
    LET path == ProjectionPath("test-counter", "s1")
    IN  /\ calls["c1"].pc = "resolved"
        /\ Len(calls["c1"].readEvents) = 2
        /\ calls["c1"].readEvents[1].type = "ItemAdded"
        /\ calls["c1"].readEvents[2].type = "OrderCancelled"
        /\ Foreign(counterProjection, calls["c1"].readEvents) = {2}
        /\ store[path] # Null
        /\ store[path].count = 1
        /\ store[path]._metadata.streamPosition = "2"

\* what the store held before the dispatch
StoredBefore ==
    StoreAfter("s1", <<createReadEvent([type |-> "ItemAdded", data |-> EventData("ItemAdded")],
                                       1, "s1")>>)

\* C36: a projection that fails leaves its own document untouched: when the
\* read of a projection has exhausted its attempts, or its evolve has thrown
\* on an event of the batch, no set and no remove has been issued at the
\* projection's path in this dispatch and the document stored there is the one
\* stored before the dispatch.
C36_FailedProjectionUntouched ==
    LET call == calls["c1"]
    IN  call.pc = "rejected" =>
           /\ OpsAt(call.log, CurrentPath(call), {"timer", "rejected", "handle"}) # {}
                  \/ OpsAt(call.log, Current(call).name, {"handle"}) # {}
           /\ OpsAt(call.log, CurrentPath(call), {"set", "remove", "settled"}) = {}
           /\ store[CurrentPath(call)] = StoredBefore[CurrentPath(call)]
           /\ store[CurrentPath(call)] # Null

\* the cart's evolve threw on the addition that followed a cancellation: the
\* counter has been written, the cart is still the one stored before
C36_Witness ==
    /\ calls["c1"].pc = "rejected"
    /\ calls["c1"].outcome = [rejected |-> TypeErrorOfNull]
    /\ Current(calls["c1"]).name = "test-cart"
    /\ Last(calls["c1"].log).op = "handle"
    /\ store[ProjectionPath("test-cart", "s1")] = StoredBefore[ProjectionPath("test-cart", "s1")]
    /\ store[ProjectionPath("test-cart", "s1")].totalQuantity = 1
    /\ store[ProjectionPath("test-counter", "s1")].count = 2

\* the documents the calls have set at a path
SetAt(path) ==
    UNION {{calls[c].log[i].value : i \in OpsAt(calls[c].log, path, {"set"})} :
               c \in Callers}

\* C37: within one dispatch the path of each matching projection receives at
\* most one mutation, a set or a remove, issued after handle was entered and
\* carrying the state reached when evolve has been applied to every event of
\* the batch; and what is stored at a path, and so what a concurrent call can
\* read, is never an intermediate state of a fold: it is a document some call
\* has set, the end of that call's fold.
C37_OneMutationAfterFold ==
    /\ \A c \in Callers : \A j \in DOMAIN calls[c].projections :
           LET call == calls[c]
               options == call.projections[j].options
               path == PathOf(call, call.projections[j])
               mutations == OpsAt(call.log, path, {"set", "remove"})
               final == EvolvedInOrder(options, StartOfFold(options, DocumentRead(call, j)),
                                       call.readEvents)
           IN  /\ Cardinality(mutations) <= 1
               /\ Cardinality(OpsAt(call.log, path, {"settled"})) <= Cardinality(mutations)
               /\ \A i \in mutations :
                      /\ \E h \in OpsAt(call.log, call.projections[j].name, {"handle"}) : h < i
                      /\ Len(ResultsOf(call, j)) = Len(call.readEvents)
                      /\ IF call.log[i].op = "remove" THEN final = Null
                         ELSE FieldsSet(call, j) = {final}
    /\ \A p \in DOMAIN store : store[p] # Null => store[p] \in SetAt(p)

\* two overlapping calls, each appending an addition and a removal: the
\* counter goes through count 1 inside each fold, and the store holds count 0
C37_Witness ==
    LET path == ProjectionPath("test-counter", "s1")
    IN  /\ \A c \in Callers :
               /\ calls[c].pc = "resolved"
               /\ calls[c].overlapped
               /\ Len(calls[c].readEvents) = 2
               /\ calls[c].readEvents[1].type = "ItemAdded"
               /\ calls[c].readEvents[2].type = "ItemRemoved"
        /\ store[path] # Null
        /\ store[path].count = 0

\* the part of the log that belongs to the read of the j-th matching
\* projection: from its first attempt to the first attempt of the next one
SpanOfRead(call, j) ==
    LET own == Attempts(call, PathOf(call, call.projections[j]))
        later == IF j < Len(call.projections)
                 THEN Attempts(call, PathOf(call, call.projections[j + 1]))
                 ELSE {}
    IN  {i \in DOMAIN call.log :
            /\ \E a \in own : a <= i
            /\ \A a \in later : i < a}

\* C38: one read resets the connection as many times as its attempts timed
\* out, between 0 and 3, whatever the other attempts did: every fired timer is
\* followed at once by goOffline, also the timer of the third attempt, after
\* which nothing is retried; a read whose three attempts all time out has
\* reset the connection three times when it throws.
C38_ResetsEqualTimeouts ==
    \A j \in DOMAIN calls["c1"].projections :
        LET call == calls["c1"]
            span == SpanOfRead(call, j)
            timers == {i \in span : call.log[i].op = "timer"}
            resets == {i \in span : call.log[i].op = "goOffline"}
        IN  /\ Cardinality(resets) = Cardinality(timers)
            /\ Cardinality(timers) <= Len(READ_TIMEOUTS_MS)
            /\ \A t \in timers : t + 1 \in resets
            /\ Cardinality(timers) = Len(READ_TIMEOUTS_MS) =>
                   /\ call.pc = "rejected"
                   /\ call.outcome = [rejected |-> Error(TIMEOUT_ERROR_MESSAGE)]
                   /\ Last(call.log).op = "goOnline"

\* three attempts, three fired timers, three resets, the last one after the
\* third timer, and the call has rejected
C38_Witness ==
    LET call == calls["c1"]
    IN  /\ call.pc = "rejected"
        /\ Len(call.projections) >= 1
        /\ Cardinality({i \in SpanOfRead(call, 1) : call.log[i].op = "timer"}) = 3
        /\ Cardinality({i \in SpanOfRead(call, 1) : call.log[i].op = "goOffline"}) = 3
        /\ Cardinality(Attempts(call, PathOf(call, call.projections[1]))) = 3
        /\ call.log[Len(call.log) - 2].op = "timer"
        /\ Last(call.log).op = "goOnline"

\* the document a call has left at a path it wrote, null after a remove
LeftAt(call, path) ==
    IF OpsAt(call.log, path, {"set"}) # {}
    THEN call.log[CHOOSE i \in OpsAt(call.log, path, {"set"}) : TRUE].value
    ELSE Null

\* C39: the store wired twice, with L1 and then with L2, is one store whose
\* appendToStream runs both wrappers: each append calls the store's own append
\* once (the stream grows by the batch, once), then the dispatch to L1 runs,
\* and only when it has resolved the dispatch to L2, with the same result and
\* the same read events; if the append or the dispatch to L1 fails, nothing is
\* dispatched to L2 and the caller gets that error.  A projection in both
\* lists is handed, in the second dispatch, the document the first dispatch
\* left, and folds the batch on top of it: the batch is applied twice.
C39_WiredTwice ==
    LET outer == calls["c1"]
        inner == calls["c2"]
    IN  /\ outer.pc # "idle" =>
               /\ eventStore[outer.streamName] \in {0, Len(outer.events)}
               /\ Cardinality(OpsAt(inner.log, inner.streamName, {"append"})) = 1
               /\ inner.events = outer.events /\ inner.streamName = outer.streamName
        /\ outer.pc \notin {"idle", "appending"} =>
               /\ inner.pc \in {"resolved", "rejected"}
               /\ inner.pc = "rejected" =>
                      /\ outer.pc = "rejected"
                      /\ outer.outcome = inner.outcome
                      /\ outer.projections = <<>>
                      /\ Len(outer.log) = 1
               /\ inner.pc = "resolved" =>
                      /\ eventStore[outer.streamName] = Len(outer.events)
                      /\ outer.result = inner.result
                      /\ outer.readEvents = inner.readEvents
                      /\ inner.projections = MatchingProjections(inner.readEvents, FirstWiring)
                      /\ outer.projections = MatchingProjections(outer.readEvents, SecondWiring)
                      /\ \A j \in DOMAIN outer.projections :
                             LET projection == outer.projections[j]
                                 path == PathOf(outer, projection)
                             IN  (/\ projection \in Range(inner.projections)
                                  /\ OpsAt(outer.log, projection.name, {"handle"}) # {}) =>
                                     /\ DocumentRead(outer, j) = LeftAt(inner, path)
                                     /\ \A i \in OpsAt(outer.log, path, {"set"}) :
                                            FieldsSet(outer, j) =
                                                {EvolvedInOrder(projection.options,
                                                     StartOfFold(projection.options,
                                                                 LeftAt(inner, path)),
                                                     outer.readEvents)}
        /\ outer.pc = "resolved" => outer.outcome = inner.outcome

\* one ItemAdded appended through the store wired twice: the stream holds one
\* event and the counter, registered in both wirings, counts two
C39_Witness ==
    /\ calls["c1"].pc = "resolved" /\ calls["c2"].pc = "resolved"
    /\ Len(calls["c1"].events) = 1
    /\ calls["c1"].events[1].type = "ItemAdded"
    /\ eventStore["s1"] = 1
    /\ store[ProjectionPath("test-counter", "s1")] # Null
    /\ store[ProjectionPath("test-counter", "s1")].count = 2
    /\ store[ProjectionPath("test-cart", "s1")] # Null
    /\ store[ProjectionPath("test-cart", "s1")].totalQuantity = 1
    /\ store[ProjectionPath("_default", "s1")] # Null

====
